---- MODULE Spec2Model ----
(***************************************************************************)
(* Model of the gb_emulator core: the ALU helper (src/src/alu.rs), the     *)
(* per-opcode routines and their dispatch (src/src/opcodes.rs), the CPU    *)
(* register file and run loop (src/src/cpu.rs), the cartridge bank         *)
(* controllers and the cartridge loader (src/src/cartridge), the memory    *)
(* map (src/src/mmu.rs) and the timer (src/src/timer.rs).                  *)
(*                                                                         *)
(* The specifications share the variables:                                 *)
(*   SpecAlu    calls the pure ALU functions on sampled operands;          *)
(*   SpecOps    dispatches one opcode routine (CPU::decode) on a sampled   *)
(*              CPU state;                                                 *)
(*   SpecStack  is SpecOps with the conditional transfers, PUSH and POP,   *)
(*              and a POP dispatched after a PUSH;                         *)
(*   SpecRegs   calls the register accessors of the CPU;                   *)
(*   SpecRun    is CPU::load_and_run on a small family of programs;        *)
(*   SpecMoves  dispatches the loads, moves, jumps, calls, returns, stack  *)
(*              and bit opcodes on the CPU states of SpecStack, and a RET  *)
(*              dispatched after a CALL;                                   *)
(*   SpecShifts dispatches ADD HL,rr and the shifts and rotates of the     *)
(*              extended page;                                             *)
(*   SpecMbc    calls a bank controller built from a cartridge image;      *)
(*   SpecBanks  calls the controllers MBC0, MBC1 and MBC2 on one image     *)
(*              each;                                                      *)
(*   SpecBus    reads and writes bytes through the memory map;             *)
(*   SpecTimer  ticks a fresh timer and reads its registers;               *)
(*   SpecTimerRun writes the timer registers and then ticks for ever;      *)
(*   SpecLoad   builds a cartridge and a bank controller from a file.      *)
(***************************************************************************)
EXTENDS Integers, Sequences, FiniteSets, TLC

(***************************************************************************)
(* Bounds of the model.                                                    *)
(***************************************************************************)
\* sampled nibbles are 0..NibEdge and 15; sampled bytes are all pairs of them
NibEdge == 1

(***************************************************************************)
(* Input samples.                                                          *)
(***************************************************************************)
Nibbles == (0 .. NibEdge) \cup {15}

SampleBytes == {hi * 16 + lo : hi \in Nibbles, lo \in Nibbles}

EdgeBytes == {0, 1, 15, 255}

SampleWords == {hi * 256 + lo : hi \in EdgeBytes, lo \in EdgeBytes}

(***************************************************************************)
(* Bit operations on naturals (Rust's &, | and ^ on unsigned integers).    *)
(***************************************************************************)
RECURSIVE bitand(_, _)
bitand(x, y) ==
    IF x = 0 \/ y = 0 THEN 0
    ELSE ((x % 2) * (y % 2)) + 2 * bitand(x \div 2, y \div 2)

RECURSIVE bitor(_, _)
bitor(x, y) ==
    IF x = 0 THEN y
    ELSE IF y = 0 THEN x
    ELSE (IF (x % 2) + (y % 2) > 0 THEN 1 ELSE 0) + 2 * bitor(x \div 2, y \div 2)

RECURSIVE bitxor(_, _)
bitxor(x, y) ==
    IF x = 0 THEN y
    ELSE IF y = 0 THEN x
    ELSE (((x % 2) + (y % 2)) % 2) + 2 * bitxor(x \div 2, y \div 2)

\* (1 << bit) - 1
lowmask(bit) == (2 ^ bit) - 1

bool2int(flag) == IF flag THEN 1 ELSE 0

(***************************************************************************)
(* src/src/alu.rs                                                          *)
(***************************************************************************)
\* has_carry with the comparison off by one (>= instead of >)
has_carry_ge(bit, x, y, carry) ==
    LET mask == lowmask(bit)
    IN  bitand(x, mask) + bitand(y, mask) + bitand(carry, mask) >= mask

has_carry(bit, x, y, carry) ==
    LET mask == lowmask(bit)
    IN  bitand(x, mask) + bitand(y, mask) + bitand(carry, mask) > mask

\* has_borrow that forgets the borrow-in
has_borrow_nocarry(bit, x, y, carry) ==
    LET mask == lowmask(bit)
    IN  bitand(x, mask) < bitand(y, mask)

has_borrow(bit, x, y, carry) ==
    LET mask == lowmask(bit)
    IN  bitand(x, mask) < bitand(y, mask) + bitand(carry, mask)

\* returns <<res, h, c, z>>
add(bit, x, y, carry, half_carry_bit, carry_bit) ==
    LET cin  == bool2int(carry)
        mask == lowmask(bit)
        res  == bitand(x + y + cin, mask)
    IN  << res,
           has_carry(half_carry_bit, x, y, cin),
           has_carry(carry_bit, x, y, cin),
           res = 0 >>

\* returns <<res, h, c, z>>.  x.wrapping_sub(y).wrapping_sub(c) wraps at the
\* width of usize; masking the wrapped difference with (1 << bit) - 1 leaves
\* the difference modulo 2^bit.
sub(bit, x, y, carry, half_carry_bit, carry_bit) ==
    LET cin  == bool2int(carry)
        mask == lowmask(bit)
        res  == (x - y - cin) % (mask + 1)
    IN  << res,
           has_borrow(half_carry_bit, x, y, cin),
           has_borrow(carry_bit, x, y, cin),
           res = 0 >>

signed(v) ==
    IF bitand(v, 128) # 0 THEN bitor(65280, v) ELSE v

add_u8(x, y, carry) == add(8, x, y, carry, 4, 8)

add_u16(x, y, carry) == add(16, x, y, carry, 12, 16)

add_u16_signed(x, y, carry) == add(16, x, signed(y), carry, 4, 8)

sub_u8(x, y, carry) == sub(8, x, y, carry, 4, 8)

(***************************************************************************)
(* State.                                                                  *)
(***************************************************************************)
VARIABLES
    alu,        \* the ALU call under test: function, operands, returned tuple
    cpu,        \* the CPU struct: a b c d e h l status program_counter stack_pointer
    memory,     \* CPU::memory, the cells that differ from 0
    last,       \* the opcode dispatched last and the CPU state before it; prior is
                \* the same for the opcode dispatched before that one
    run,        \* position of the CPU: "idle", "fetched", "executed", "running",
                \* "stopped", "panicked"
    program,    \* the bytes handed to CPU::load_and_run
    mmu,        \* the MMU struct: the bank controller it owns
    call        \* the accessor or bank-controller call made last: function,
                \* arguments, returned value, whether it panicked

vars == << alu, cpu, memory, last, run, program, mmu, call >>

\* the variables of the bus side, untouched by the CPU actions
bus_vars == << mmu, call >>

(***************************************************************************)
(* SpecAlu: the pure ALU functions on sampled operands.                    *)
(***************************************************************************)
AluIdle == [fn |-> "none", x |-> 0, y |-> 0, carry |-> FALSE, out |-> << >>]

CpuIdle ==
    [a |-> 0, b |-> 0, c |-> 0, d |-> 0, e |-> 0, h |-> 0, l |-> 0,
     status |-> 0, program_counter |-> 0, stack_pointer |-> 0]

\* no opcode dispatched yet
NoOp == [code |-> -1, pre |-> CpuIdle]

LastIdle == [code |-> -1, pre |-> CpuIdle, premem |-> << >>, cycles |-> 0,
             prior |-> NoOp]

\* no bank controller attached
MmuIdle == [mbc |-> [kind |-> "none"], enable_data |-> -1, ram_stores |-> 0]

\* no call made yet; prev is the function and the arguments of the call before
CallIdle == [fn |-> "none", args |-> << >>, out |-> << >>, fault |-> FALSE,
             prev |-> [fn |-> "none", args |-> << >>]]

InitAlu ==
    /\ \E x \in SampleBytes \cup SampleWords, y \in SampleBytes \cup SampleWords,
          carry \in BOOLEAN :
          alu = [fn |-> "none", x |-> x, y |-> y, carry |-> carry, out |-> << >>]
    /\ cpu = CpuIdle
    /\ memory = << >>
    /\ last = LastIdle
    /\ run = "idle"
    /\ program = << >>
    /\ mmu = MmuIdle
    /\ call = CallIdle

call_add_u8 ==
    /\ alu.fn = "none"
    /\ alu.x < 256 /\ alu.y < 256
    /\ alu' = [alu EXCEPT !.fn = "add_u8", !.out = add_u8(alu.x, alu.y, alu.carry)]
    /\ UNCHANGED << cpu, memory, last, run, program, bus_vars >>

call_sub_u8 ==
    /\ alu.fn = "none"
    /\ alu.x < 256 /\ alu.y < 256
    /\ alu' = [alu EXCEPT !.fn = "sub_u8", !.out = sub_u8(alu.x, alu.y, alu.carry)]
    /\ UNCHANGED << cpu, memory, last, run, program, bus_vars >>

call_add_u16 ==
    /\ alu.fn = "none"
    /\ alu' = [alu EXCEPT !.fn = "add_u16", !.out = add_u16(alu.x, alu.y, alu.carry)]
    /\ UNCHANGED << cpu, memory, last, run, program, bus_vars >>

call_add_u16_signed ==
    /\ alu.fn = "none"
    /\ alu.y < 256
    /\ alu' = [alu EXCEPT !.fn = "add_u16_signed",
                          !.out = add_u16_signed(alu.x, alu.y, alu.carry)]
    /\ UNCHANGED << cpu, memory, last, run, program, bus_vars >>

NextAlu ==
    \/ call_add_u8
    \/ call_sub_u8
    \/ call_add_u16
    \/ call_add_u16_signed

SpecAlu == InitAlu /\ [][NextAlu]_vars

(***************************************************************************)
(* src/src/cpu.rs: status flags, register accessors, memory.               *)
(***************************************************************************)
\* StatusFlags bits
FlagZ == 128
FlagN == 64
FlagH == 32
FlagC == 16

\* bitflags: contains / insert / remove / set
contains(status, flag) == bitand(status, flag) = flag

insert(status, flag) == bitor(status, flag)

remove(status, flag) == bitand(status, 255 - flag)

set(status, flag, value) ==
    IF value THEN insert(status, flag) ELSE remove(status, flag)

\* the 8-bit getters of cpu.rs: every one of them returns self.a
get_a(s) == s.a

get_b(s) == s.a

get_c(s) == s.a

get_d(s) == s.a

get_e(s) == s.a

get_h(s) == s.a

get_l(s) == s.a

\* the 8-bit setters the opcode routines call (not part of cpu.rs)
set_a(s, v) == [s EXCEPT !.a = v]

set_b(s, v) == [s EXCEPT !.b = v]

set_c(s, v) == [s EXCEPT !.c = v]

set_d(s, v) == [s EXCEPT !.d = v]

set_e(s, v) == [s EXCEPT !.e = v]

set_h(s, v) == [s EXCEPT !.h = v]

set_l(s, v) == [s EXCEPT !.l = v]

\* u16::from_le_bytes([lo, hi])
from_le_bytes(lo, hi) == hi * 256 + lo

get_bc(s) == from_le_bytes(s.c, s.b)

set_bc(s, data) == [s EXCEPT !.b = data \div 256, !.c = data % 256]

get_de(s) == from_le_bytes(s.e, s.d)

set_de(s, data) == [s EXCEPT !.d = data \div 256, !.e = data % 256]

get_hl(s) == from_le_bytes(s.l, s.h)

set_hl(s, data) == [s EXCEPT !.h = data \div 256, !.l = data % 256]

get_sp(s) == s.stack_pointer

set_sp(s, v) == [s EXCEPT !.stack_pointer = v]

\* memory: [u8; 0xFFFF] has 0xFFFF cells, so index 0xFFFF is out of bounds
MemSize == 65535

in_bounds(addr) == addr < MemSize

\* self.memory[addr as usize], for an address within bounds
mem_read(m, addr) == IF addr \in DOMAIN m THEN m[addr] ELSE 0

\* self.memory[addr as usize] = data, for an address within bounds
mem_write(m, addr, data) ==
    LET dom == IF data = 0 THEN DOMAIN m \ {addr} ELSE DOMAIN m \cup {addr}
    IN  [x \in dom |-> IF x = addr THEN data ELSE m[x]]

wrapping_add16(x, y) == (x + y) % 65536

\* rr.wrapping_sub(1) on u16
wrapping_sub16(x, y) == (x - y) % 65536

\* Mem::mem_read_u16, for addresses within bounds
mem_read_u16(m, addr) ==
    from_le_bytes(mem_read(m, addr), mem_read(m, wrapping_add16(addr, 1)))

\* Mem::mem_write_u16, for addresses within bounds
mem_write_u16(m, addr, data) ==
    mem_write(mem_write(m, addr, data % 256), wrapping_add16(addr, 1), data \div 256)

(***************************************************************************)
(* src/src/opcodes.rs: the opcode routines.  A routine maps the CPU and    *)
(* the memory to the new CPU, the new memory and the cycles it returns.    *)
(***************************************************************************)
Ret(s, m, n) == [cpu |-> s, memory |-> m, cycles |-> n, fault |-> FALSE]

\* a routine that panics instead of returning
Panic(s, m) == [cpu |-> s, memory |-> m, cycles |-> 0, fault |-> TRUE]

AddCodes == (128 .. 135) \cup {198}     \* 0x80-0x87 ADD A,r   0xC6 ADD A,u8
AdcCodes == (136 .. 143) \cup {206}     \* 0x88-0x8F ADC A,r   0xCE ADC A,u8
SubCodes == (144 .. 151) \cup {214}     \* 0x90-0x97 SUB A,r   0xD6 SUB A,u8
SbcCodes == (152 .. 159) \cup {222}     \* 0x98-0x9F SBC A,r   0xDE SBC A,u8
AndCodes == (160 .. 167) \cup {230}     \* 0xA0-0xA7 AND A,r   0xE6 AND A,u8
XorCodes == (168 .. 175) \cup {238}     \* 0xA8-0xAF XOR A,r   0xEE XOR A,u8
OrCodes  == (176 .. 183) \cup {246}     \* 0xB0-0xB7 OR A,r    0xF6 OR A,u8
CpCodes  == (184 .. 191) \cup {254}     \* 0xB8-0xBF CP A,r    0xFE CP A,u8
Inc8Codes == {4, 12, 20, 28, 36, 44, 52, 60}    \* 0x04 0x0C ... 0x3C INC r
Dec8Codes == {5, 13, 21, 29, 37, 45, 53, 61}    \* 0x05 0x0D ... 0x3D DEC r
Inc16Codes == {3, 19, 35, 51}           \* 0x03 0x13 0x23 0x33 INC rr
Dec16Codes == {11, 27, 43, 59}          \* 0x0B 0x1B 0x2B 0x3B DEC rr
AddSpCode == 232                        \* 0xE8 ADD SP,i8
LdHlSpCode == 248                       \* 0xF8 LD HL,SP+i8

ImmCodes == {198, 206, 214, 222, 230, 238, 246, 254, 232, 248}

JrCondCodes == {32, 40, 48, 56}         \* 0x20 0x28 0x30 0x38  JR cc,i8
RetCondCodes == {192, 200, 208, 216}    \* 0xC0 0xC8 0xD0 0xD8  RET cc
JpCondCodes == {194, 202, 210, 218}     \* 0xC2 0xCA 0xD2 0xDA  JP cc,u16
CallCondCodes == {196, 204, 212, 220}   \* 0xC4 0xCC 0xD4 0xDC  CALL cc,u16
PushCodes == {197, 213, 229, 245}       \* 0xC5 0xD5 0xE5 0xF5  PUSH rr
PopCodes == {193, 209, 225, 241}        \* 0xC1 0xD1 0xE1 0xF1  POP rr

CondCodes == JrCondCodes \cup RetCondCodes \cup JpCondCodes \cup CallCondCodes

FlowCodes == CondCodes \cup PushCodes \cup PopCodes

StopCode == 16      \* 0x10 STOP
HaltCode == 118     \* 0x76 HALT

LdImmCodes == {6, 14, 22, 30, 38, 46, 54, 62}       \* LD r,u8 and LD (HL),u8
LdRegCodes == (64 .. 127) \ {HaltCode}               \* LD r,r'
LdMemCodes == {2, 10, 18, 26, 34, 42, 50, 58}       \* LD (rr),A and LD A,(rr)
LdHighCodes == {224, 226, 234, 240, 242, 250}       \* LD (FF00+x),A ... LD A,(u16)

LdWideCodes == {1, 17, 33, 49}      \* 0x01 0x11 0x21 0x31  LD rr,u16

RstCodes == {199, 207, 215, 223, 231, 239, 247, 255}    \* 0xC7 0xCF ... 0xFF  RST n

NopCode == 0        \* 0x00 NOP
CplCode == 47       \* 0x2F CPL
ScfCode == 55       \* 0x37 SCF
CcfCode == 63       \* 0x3F CCF

BitCodes == 52032 .. 52095      \* 0xCB40-0xCB7F  BIT n,r
ResCodes == 52096 .. 52159      \* 0xCB80-0xCBBF  RES n,r
SetCodes == 52160 .. 52223      \* 0xCBC0-0xCBFF  SET n,r

\* the opcodes whose routines are guarded by indexing
MoveCodes ==
    LdImmCodes \cup LdMemCodes \cup LdHighCodes \cup LdWideCodes \cup RstCodes
        \cup {8, 249, 24, 195, 233, 205, 201, NopCode, CplCode, ScfCode, CcfCode}

\* let flg = ...: the condition of a conditional opcode, NZ Z NC C by bits 3-4
condition(code, s) ==
    CASE (code \div 8) % 4 = 0 -> ~contains(s.status, FlagZ)
      [] (code \div 8) % 4 = 1 -> contains(s.status, FlagZ)
      [] (code \div 8) % 4 = 2 -> ~contains(s.status, FlagC)
      [] (code \div 8) % 4 = 3 -> contains(s.status, FlagC)

\* the memory addresses the routine of a control-flow or stack opcode indexes
flow_touched(code, s) ==
    LET pc == s.program_counter
        sp == s.stack_pointer
    IN  CASE code \in JrCondCodes -> IF condition(code, s) THEN {pc} ELSE {}
          [] code \in JpCondCodes ->
                IF condition(code, s) THEN {pc, wrapping_add16(pc, 1)} ELSE {}
          [] code \in CallCondCodes ->
                IF condition(code, s)
                THEN {pc, wrapping_add16(pc, 1),
                      wrapping_sub16(sp, 2), wrapping_sub16(sp, 1)}
                ELSE {}
          [] code \in RetCondCodes ->
                IF condition(code, s) THEN {sp, wrapping_add16(sp, 1)} ELSE {}
          [] code \in PopCodes -> {sp, wrapping_add16(sp, 1)}
          [] code \in PushCodes ->
                {wrapping_sub16(sp, 2), wrapping_sub16(sp, 1)}

\* operand slot of an opcode: 0..7 = B C D E H L (HL) A, 8 = the immediate byte
slot(code) ==
    IF code \in ImmCodes THEN 8
    ELSE IF code < 64 THEN code \div 8
    ELSE code % 8

\* the operand expression of the routine of an 8-bit ALU opcode
operand8(code, s, m) ==
    CASE slot(code) = 0 -> get_b(s)
      [] slot(code) = 1 -> get_c(s)
      [] slot(code) = 2 -> get_d(s)
      [] slot(code) = 3 -> get_e(s)
      [] slot(code) = 4 -> get_h(s)
      [] slot(code) = 5 -> get_l(s)
      [] slot(code) = 6 -> mem_read(m, get_hl(s))
      [] slot(code) = 7 -> get_a(s)
      [] slot(code) = 8 -> mem_read(m, s.program_counter)

\* the write-back of INC r / DEC r
writeback8(code, s, m, res) ==
    CASE slot(code) = 0 -> Ret(set_b(s, res), m, 4)
      [] slot(code) = 1 -> Ret(set_c(s, res), m, 4)
      [] slot(code) = 2 -> Ret(set_d(s, res), m, 4)
      [] slot(code) = 3 -> Ret(set_e(s, res), m, 4)
      [] slot(code) = 4 -> Ret(set_h(s, res), m, 4)
      [] slot(code) = 5 -> Ret(set_l(s, res), m, 4)
      [] slot(code) = 6 -> Ret(s, mem_write(m, get_hl(s), res), 12)
      [] slot(code) = 7 -> Ret(set_a(s, res), m, 4)

\* the memory addresses the routine of an opcode indexes
touched(code, s) ==
    CASE code \in FlowCodes -> flow_touched(code, s)
      [] code \in MoveCodes -> {}
      [] slot(code) = 6 /\ code \notin Inc16Codes \cup Dec16Codes -> {get_hl(s)}
      [] slot(code) = 8 -> {s.program_counter}
      [] OTHER -> {}

alu_cycles(code) == IF slot(code) \in {6, 8} THEN 8 ELSE 4

\* ADD A,x:  let (res, z, h, c) = alu::add_u8(x, y, false)
op_add(code, s, m) ==
    LET t   == add_u8(get_a(s), operand8(code, s, m), FALSE)
        res == t[1]
        z   == t[2]
        h   == t[3]
        c   == t[4]
        s1  == set_a(s, res)
        f1  == set(s1.status, FlagZ, z)
        f2  == remove(f1, FlagN)
        f3  == set(f2, FlagH, h)
        f4  == set(f3, FlagC, c)
    IN  Ret([s1 EXCEPT !.status = f4], m, alu_cycles(code))

\* ADC A,x:  let (res, z, h, c) = alu::add_u8(a, x, carry)
op_adc(code, s, m) ==
    LET carry == contains(s.status, FlagC)
        t   == add_u8(get_a(s), operand8(code, s, m), carry)
        res == t[1]
        z   == t[2]
        h   == t[3]
        c   == t[4]
        s1  == set_a(s, res)
        f1  == set(s1.status, FlagZ, z)
        f2  == remove(f1, FlagN)
        f3  == set(f2, FlagH, h)
        f4  == set(f3, FlagC, c)
    IN  Ret([s1 EXCEPT !.status = f4], m, alu_cycles(code))

\* SUB A,x:  let (res, z, h, c) = alu::sub_u8(a, x, false)
op_sub(code, s, m) ==
    LET t   == sub_u8(get_a(s), operand8(code, s, m), FALSE)
        res == t[1]
        z   == t[2]
        h   == t[3]
        c   == t[4]
        s1  == set_a(s, res)
        f1  == set(s1.status, FlagZ, z)
        f2  == insert(f1, FlagN)
        f3  == set(f2, FlagH, h)
        f4  == set(f3, FlagC, c)
    IN  Ret([s1 EXCEPT !.status = f4], m, alu_cycles(code))

\* SBC A,x:  let (res, z, h, c) = alu::sub_u8(a, x, carry)
op_sbc(code, s, m) ==
    LET carry == contains(s.status, FlagC)
        t   == sub_u8(get_a(s), operand8(code, s, m), carry)
        res == t[1]
        z   == t[2]
        h   == t[3]
        c   == t[4]
        s1  == set_a(s, res)
        f1  == set(s1.status, FlagZ, z)
        f2  == insert(f1, FlagN)
        f3  == set(f2, FlagH, h)
        f4  == set(f3, FlagC, c)
    IN  Ret([s1 EXCEPT !.status = f4], m, alu_cycles(code))

\* AND A,x:  self.a = self.a & x
op_and(code, s, m) ==
    LET s1  == [s EXCEPT !.a = bitand(s.a, operand8(code, s, m))]
        z   == s1.a = 0
        f1  == set(s1.status, FlagZ, z)
        f2  == remove(f1, FlagN)
        f3  == insert(f2, FlagH)
        f4  == remove(f3, FlagC)
    IN  Ret([s1 EXCEPT !.status = f4], m, alu_cycles(code))

\* XOR A,x:  self.a = self.a ^ x
op_xor(code, s, m) ==
    LET s1  == [s EXCEPT !.a = bitxor(s.a, operand8(code, s, m))]
        z   == s1.a = 0
        f1  == set(s1.status, FlagZ, z)
        f2  == remove(f1, FlagN)
        f3  == remove(f2, FlagH)
        f4  == remove(f3, FlagC)
    IN  Ret([s1 EXCEPT !.status = f4], m, alu_cycles(code))

\* OR A,x:  self.a = self.a | x
op_or(code, s, m) ==
    LET s1  == [s EXCEPT !.a = bitor(s.a, operand8(code, s, m))]
        z   == s1.a = 0
        f1  == set(s1.status, FlagZ, z)
        f2  == remove(f1, FlagN)
        f3  == remove(f2, FlagH)
        f4  == remove(f3, FlagC)
    IN  Ret([s1 EXCEPT !.status = f4], m, alu_cycles(code))

\* CP A,x:  let (res, _, h, _) = alu::sub_u8(self.a, x, false)
op_cp(code, s, m) ==
    LET x   == operand8(code, s, m)
        t   == sub_u8(s.a, x, FALSE)
        res == t[1]
        h   == t[3]
        z   == res = 0
        c   == s.a < x
        f1  == set(s.status, FlagZ, z)
        f2  == insert(f1, FlagN)
        f3  == set(f2, FlagH, h)
        f4  == set(f3, FlagC, c)
    IN  Ret([s EXCEPT !.status = f4], m, alu_cycles(code))

\* INC r:  let (res, z, h, _) = alu::add_u8(r, 1, false)
op_inc8(code, s, m) ==
    LET t   == add_u8(operand8(code, s, m), 1, FALSE)
        res == t[1]
        z   == t[2]
        h   == t[3]
        w   == writeback8(code, s, m, res)
        f1  == set(w.cpu.status, FlagZ, z)
        f2  == remove(f1, FlagN)
        f3  == set(f2, FlagH, h)
    IN  Ret([w.cpu EXCEPT !.status = f3], w.memory, w.cycles)

\* DEC r:  let (res, z, h, _) = alu::sub_u8(r, 1, false)
op_dec8(code, s, m) ==
    LET t   == sub_u8(operand8(code, s, m), 1, FALSE)
        res == t[1]
        z   == t[2]
        h   == t[3]
        w   == writeback8(code, s, m, res)
        f1  == set(w.cpu.status, FlagZ, z)
        f2  == insert(f1, FlagN)
        f3  == set(f2, FlagH, h)
    IN  Ret([w.cpu EXCEPT !.status = f3], w.memory, w.cycles)

\* INC rr that also stores the Zero and Half-Carry flags, as INC r does
op_inc16_flags(code, s, m) ==
    LET old == CASE code = 3  -> get_bc(s)
                 [] code = 19 -> get_de(s)
                 [] code = 35 -> get_hl(s)
                 [] code = 51 -> get_sp(s)
        t   == add_u16(old, 1, FALSE)
        s1  == CASE code = 3  -> set_bc(s, t[1])
                 [] code = 19 -> set_de(s, t[1])
                 [] code = 35 -> set_hl(s, t[1])
                 [] code = 51 -> set_sp(s, t[1])
        f1  == set(s1.status, FlagZ, t[4])
        f2  == remove(f1, FlagN)
        f3  == set(f2, FlagH, t[2])
    IN  Ret([s1 EXCEPT !.status = f3], m, 8)

\* INC rr:  let (res, z, h, _) = alu::add_u16(rr, 1, false); set_rr(res)
op_inc16(code, s, m) ==
    CASE code = 3  -> Ret(set_bc(s, add_u16(get_bc(s), 1, FALSE)[1]), m, 8)
      [] code = 19 -> Ret(set_de(s, add_u16(get_de(s), 1, FALSE)[1]), m, 8)
      [] code = 35 -> Ret(set_hl(s, add_u16(get_hl(s), 1, FALSE)[1]), m, 8)
      [] code = 51 -> Ret(set_sp(s, add_u16(get_sp(s), 1, FALSE)[1]), m, 8)

\* DEC rr:  let res = rr.wrapping_sub(1); set_rr(res)
op_dec16(code, s, m) ==
    CASE code = 11 -> Ret(set_bc(s, wrapping_sub16(get_bc(s), 1)), m, 8)
      [] code = 27 -> Ret(set_de(s, wrapping_sub16(get_de(s), 1)), m, 8)
      [] code = 43 -> Ret(set_hl(s, wrapping_sub16(get_hl(s), 1)), m, 8)
      [] code = 59 -> Ret(set_sp(s, wrapping_sub16(get_sp(s), 1)), m, 8)

\* ADD SP,i8:  let y = imm as u16; let (res, z, h, c) = alu::add_u16(sp, y, false)
op_00e8(s, m) ==
    LET x   == get_sp(s)
        y   == mem_read(m, s.program_counter)
        t   == add_u16(x, y, FALSE)
        res == t[1]
        h   == t[3]
        c   == t[4]
        s1  == set_sp(s, res)
        f1  == remove(s1.status, FlagZ)
        f2  == remove(f1, FlagN)
        f3  == set(f2, FlagH, h)
        f4  == set(f3, FlagC, c)
    IN  Ret([s1 EXCEPT !.status = f4], m, 16)

\* LD HL,SP+i8:  let (res, _, h, c) = alu::add_u16(sp, imm as u16, false)
op_00f8(s, m) ==
    LET t   == add_u16(get_sp(s), mem_read(m, s.program_counter), FALSE)
        res == t[1]
        h   == t[3]
        c   == t[4]
        s1  == set_hl(s, res)
        f1  == remove(s1.status, FlagZ)
        f2  == remove(f1, FlagN)
        f3  == set(f2, FlagH, h)
        f4  == set(f3, FlagC, c)
    IN  Ret([s1 EXCEPT !.status = f4], m, 12)

(***************************************************************************)
(* Stack and control flow.  stack_push, stack_pop, get_af, set_af and      *)
(* cpu_jr are called by the routines of opcodes.rs and defined in no       *)
(* source file: they follow the specification (stack operations move the   *)
(* stack pointer by exactly 2 and fault when it leaves the high-RAM        *)
(* window; the low nibble of the flag register is always zero).            *)
(***************************************************************************)
\* high RAM: 0xFF80..=0xFFFE
HramFirst == 65408
HramLast == 65534

in_stack_window(sp) == sp >= HramFirst /\ sp <= HramLast

\* push: move the pointer down by 2, validate it, store the word at it
stack_push(s, m, v) ==
    LET sp1 == wrapping_sub16(get_sp(s), 2)
    IN  [cpu    |-> set_sp(s, sp1),
         memory |-> IF in_stack_window(sp1) THEN mem_write_u16(m, sp1, v) ELSE m,
         fault  |-> ~in_stack_window(sp1)]

\* pop: read the word at the pointer, move the pointer up by 2, validate it
stack_pop(s, m) ==
    LET sp1 == wrapping_add16(get_sp(s), 2)
    IN  [cpu   |-> set_sp(s, sp1),
         value |-> mem_read_u16(m, get_sp(s)),
         fault |-> ~in_stack_window(sp1)]

\* A is the high byte, the flag register the low byte
get_af(s) == s.a * 256 + s.status

\* the low nibble of the flag register stays zero
set_af(s, data) == [s EXCEPT !.a = data \div 256, !.status = bitand(data % 256, 240)]

\* relative jump: the displacement byte at the program counter, sign-extended,
\* is added to the address of the byte after it
cpu_jr(s, m) ==
    LET d == mem_read(m, s.program_counter)
    IN  [s EXCEPT !.program_counter =
                     wrapping_add16(wrapping_add16(s.program_counter, 1), signed(d))]

\* JR cc,i8:  if flg { self.cpu_jr(); return 8; } 12
op_jr_cond(code, s, m) ==
    IF condition(code, s) THEN Ret(cpu_jr(s, m), m, 8) ELSE Ret(s, m, 12)

\* RET cc:  if flg { self.program_counter = self.stack_pop(); return 8; } 20
op_ret_cond(code, s, m) ==
    IF condition(code, s)
    THEN LET p == stack_pop(s, m)
         IN  IF p.fault THEN Panic(s, m)
             ELSE Ret([p.cpu EXCEPT !.program_counter = p.value], m, 8)
    ELSE Ret(s, m, 20)

\* JP cc,u16:  if flg { self.program_counter = self.mem_read_u16(pc); return 12; } 16
op_jp_cond(code, s, m) ==
    IF condition(code, s)
    THEN Ret([s EXCEPT !.program_counter = mem_read_u16(m, s.program_counter)], m, 12)
    ELSE Ret(s, m, 16)

\* CALL cc,u16:  if flg { self.stack_push(pc.wrapping_add(2));
\*                         self.program_counter = self.mem_read_u16(pc); return 12; } 24
op_call_cond(code, s, m) ==
    IF condition(code, s)
    THEN LET p == stack_push(s, m, wrapping_add16(s.program_counter, 2))
         IN  IF p.fault THEN Panic(s, m)
             ELSE Ret([p.cpu EXCEPT !.program_counter =
                                       mem_read_u16(p.memory, s.program_counter)],
                      p.memory, 12)
    ELSE Ret(s, m, 24)

\* PUSH rr that pushes DE whatever pair the opcode names
op_push_de(code, s, m) ==
    LET p == stack_push(s, m, get_de(s))
    IN  IF p.fault THEN Panic(s, m) ELSE Ret(p.cpu, p.memory, 16)

\* PUSH rr:  self.stack_push(self.get_rr()); 16
op_push(code, s, m) ==
    LET v == CASE code = 197 -> get_bc(s)
               [] code = 213 -> get_de(s)
               [] code = 229 -> get_hl(s)
               [] code = 245 -> get_af(s)
        p == stack_push(s, m, v)
    IN  IF p.fault THEN Panic(s, m) ELSE Ret(p.cpu, p.memory, 16)

\* POP BC / DE / HL:  let res = self.stack_pop(); self.set_rr(res); 12
op_pop(code, s, m) ==
    LET p == stack_pop(s, m)
    IN  IF p.fault THEN Panic(s, m)
        ELSE CASE code = 193 -> Ret(set_bc(p.cpu, p.value), m, 12)
               [] code = 209 -> Ret(set_de(p.cpu, p.value), m, 12)
               [] code = 225 -> Ret(set_hl(p.cpu, p.value), m, 12)

\* POP AF that copies the popped low byte into the flag register as it is
op_00f1_raw(s, m) ==
    LET p == stack_pop(s, m)
    IN  IF p.fault THEN Panic(s, m)
        ELSE Ret([p.cpu EXCEPT !.a = p.value \div 256, !.status = p.value % 256], m, 12)

\* POP AF:  let res = self.stack_pop(); self.set_af(res); 12
op_00f1(s, m) ==
    LET p == stack_pop(s, m)
    IN  IF p.fault THEN Panic(s, m) ELSE Ret(set_af(p.cpu, p.value), m, 12)

(***************************************************************************)
(* Loads, moves, unconditional control flow and the bit opcodes of the     *)
(* extended page.  A routine that indexes memory out of bounds panics.     *)
(***************************************************************************)
\* the routine result r when every address of addrs is a cell of the memory
indexing(addrs, s, m, r) ==
    IF \A addr \in addrs : in_bounds(addr) THEN r ELSE Panic(s, m)

\* self.set_r(v) for the register in slot i (0..7 = B C D E H L (HL) A)
set8(i, s, v) ==
    CASE i = 0 -> set_b(s, v)
      [] i = 1 -> set_c(s, v)
      [] i = 2 -> set_d(s, v)
      [] i = 3 -> set_e(s, v)
      [] i = 4 -> set_h(s, v)
      [] i = 5 -> set_l(s, v)
      [] i = 7 -> set_a(s, v)

\* LD r,r' that clears the flag register
op_ld_rr_clear(code, s, m) ==
    LET res == operand8(code, s, m)
        dst == (code - 64) \div 8
        s0  == [s EXCEPT !.status = 0]
    IN  IF dst = 6
        THEN indexing({get_hl(s)}, s, m, Ret(s0, mem_write(m, get_hl(s), res), 8))
        ELSE Ret(set8(dst, s0, res), m, IF slot(code) = 6 THEN 8 ELSE 4)

\* LD r,r':  let res = self.get_r'(); self.set_r(res); 4
\* LD r,(HL):  let res = self.mem_read_u8(self.get_hl()); self.set_r(res); 8
\* LD (HL),r:  let res = self.get_r(); self.mem_write_u8(self.get_hl(), res); 8
op_ld_rr(code, s, m) ==
    LET res == operand8(code, s, m)
        dst == (code - 64) \div 8
    IN  IF dst = 6
        THEN indexing({get_hl(s)}, s, m, Ret(s, mem_write(m, get_hl(s), res), 8))
        ELSE Ret(set8(dst, s, res), m, IF slot(code) = 6 THEN 8 ELSE 4)

\* LD r,u8:  let res = self.mem_read_u8(self.program_counter); self.set_r(res); 8
\* LD (HL),u8:  ...; self.mem_write_u8(self.get_hl(), res); 12
op_ld_imm(code, s, m) ==
    LET pc  == s.program_counter
        res == mem_read(m, pc)
        dst == code \div 8
    IN  IF dst = 6
        THEN indexing({pc, get_hl(s)}, s, m, Ret(s, mem_write(m, get_hl(s), res), 12))
        ELSE indexing({pc}, s, m, Ret(set8(dst, s, res), m, 8))

\* LD (BC),A  LD A,(BC)  LD (DE),A  LD A,(DE)  LD (HL+),A  LD A,(HL+)
\* LD (HL-),A  LD A,(HL-)
op_ld_mem(code, s, m) ==
    LET bc == get_bc(s)
        de == get_de(s)
        hl == get_hl(s)
    IN  CASE code = 2  -> indexing({bc}, s, m, Ret(s, mem_write(m, bc, get_a(s)), 8))
          [] code = 10 -> indexing({bc}, s, m, Ret(set_a(s, mem_read(m, bc)), m, 8))
          [] code = 18 -> indexing({de}, s, m, Ret(s, mem_write(m, de, get_a(s)), 8))
          [] code = 26 -> indexing({de}, s, m, Ret(set_a(s, mem_read(m, de)), m, 8))
          [] code = 34 -> indexing({hl}, s, m,
                             Ret(set_hl(s, wrapping_add16(hl, 1)),
                                 mem_write(m, hl, get_a(s)), 8))
          [] code = 42 -> indexing({hl}, s, m,
                             Ret(set_hl(set_a(s, mem_read(m, hl)), wrapping_add16(hl, 1)),
                                 m, 8))
          [] code = 50 -> indexing({hl}, s, m,
                             Ret(set_hl(s, wrapping_sub16(hl, 1)),
                                 mem_write(m, hl, get_a(s)), 8))
          [] code = 58 -> indexing({hl}, s, m,
                             Ret(set_hl(set_a(s, mem_read(m, hl)), wrapping_sub16(hl, 1)),
                                 m, 8))

\* LD (FF00+u8),A  LD A,(FF00+u8)  LD (FF00+C),A  LD A,(FF00+C)
\* LD (u16),A  LD A,(u16)
op_ld_high(code, s, m) ==
    LET pc   == s.program_counter
        imm  == 65280 + mem_read(m, pc)
        offc == 65280 + get_c(s)
        abs  == mem_read_u16(m, pc)
        wide == {pc, wrapping_add16(pc, 1)}
    IN  CASE code = 224 -> indexing({pc, imm}, s, m, Ret(s, mem_write(m, imm, get_a(s)), 12))
          [] code = 240 -> indexing({pc, imm}, s, m, Ret(set_a(s, mem_read(m, imm)), m, 12))
          [] code = 226 -> indexing({offc}, s, m, Ret(s, mem_write(m, offc, get_a(s)), 8))
          [] code = 242 -> indexing({offc}, s, m, Ret(set_a(s, mem_read(m, offc)), m, 8))
          [] code = 234 -> indexing(wide \cup {abs}, s, m,
                              Ret(s, mem_write(m, abs, get_a(s)), 16))
          [] code = 250 -> indexing(wide \cup {abs}, s, m,
                              Ret(set_a(s, mem_read(m, abs)), m, 16))

\* LD rr,u16:  let res = self.mem_read_u16(self.program_counter); self.set_rr(res); 12
op_ld_u16(code, s, m) ==
    LET pc  == s.program_counter
        res == mem_read_u16(m, pc)
    IN  indexing({pc, wrapping_add16(pc, 1)}, s, m,
            CASE code = 1  -> Ret(set_bc(s, res), m, 12)
              [] code = 17 -> Ret(set_de(s, res), m, 12)
              [] code = 33 -> Ret(set_hl(s, res), m, 12)
              [] code = 49 -> Ret(set_sp(s, res), m, 12))

\* LD (u16),SP:  self.mem_write_u16(self.mem_read_u16(self.program_counter), res); 20
op_0008(s, m) ==
    LET pc  == s.program_counter
        abs == mem_read_u16(m, pc)
    IN  indexing({pc, wrapping_add16(pc, 1), abs, wrapping_add16(abs, 1)}, s, m,
            Ret(s, mem_write_u16(m, abs, get_sp(s)), 20))

\* LD SP,HL:  let res = self.get_hl(); self.set_sp(res); 8
op_00f9(s, m) == Ret(set_sp(s, get_hl(s)), m, 8)

\* JR i8:  self.cpu_jr(); 12
op_0018(s, m) == indexing({s.program_counter}, s, m, Ret(cpu_jr(s, m), m, 12))

\* JP u16:  self.program_counter = self.mem_read_u16(self.program_counter); 16
op_00c3(s, m) ==
    LET pc == s.program_counter
    IN  indexing({pc, wrapping_add16(pc, 1)}, s, m,
            Ret([s EXCEPT !.program_counter = mem_read_u16(m, pc)], m, 16))

\* JP HL:  self.program_counter = self.get_hl(); 4
op_00e9(s, m) == Ret([s EXCEPT !.program_counter = get_hl(s)], m, 4)

\* CALL u16 that pushes the address of its own operand
op_00cd_operand(s, m) ==
    LET pc == s.program_counter
        p  == stack_push(s, m, pc)
    IN  IF p.fault THEN Panic(s, m)
        ELSE indexing({pc, wrapping_add16(pc, 1)}, s, m,
                 Ret([p.cpu EXCEPT !.program_counter = mem_read_u16(p.memory, pc)],
                     p.memory, 24))

\* CALL u16:  self.stack_push(self.program_counter.wrapping_add(2));
\*            self.program_counter = self.mem_read_u16(self.program_counter); 24
op_00cd(s, m) ==
    LET pc == s.program_counter
        p  == stack_push(s, m, wrapping_add16(pc, 2))
    IN  IF p.fault THEN Panic(s, m)
        ELSE indexing({pc, wrapping_add16(pc, 1)}, s, m,
                 Ret([p.cpu EXCEPT !.program_counter = mem_read_u16(p.memory, pc)],
                     p.memory, 24))

\* RET:  self.program_counter = self.stack_pop(); 16
op_00c9(s, m) ==
    LET p == stack_pop(s, m)
    IN  IF p.fault THEN Panic(s, m)
        ELSE Ret([p.cpu EXCEPT !.program_counter = p.value], m, 16)

\* RST n:  self.stack_push(self.program_counter); self.program_counter = n; 16
op_rst(code, s, m) ==
    LET p == stack_push(s, m, s.program_counter)
    IN  IF p.fault THEN Panic(s, m)
        ELSE Ret([p.cpu EXCEPT !.program_counter = code - 199], p.memory, 16)

\* NOP:  4
op_0000(s, m) == Ret(s, m, 4)

\* CPL:  self.a = !self.a; insert N; insert H; 4
op_002f(s, m) ==
    LET f1 == insert(s.status, FlagN)
        f2 == insert(f1, FlagH)
    IN  Ret([s EXCEPT !.a = 255 - s.a, !.status = f2], m, 4)

\* SCF:  remove N; remove H; insert C; 4
op_0037(s, m) ==
    LET f1 == remove(s.status, FlagN)
        f2 == remove(f1, FlagH)
        f3 == insert(f2, FlagC)
    IN  Ret([s EXCEPT !.status = f3], m, 4)

\* CCF:  let c = !self.get_cf(); remove N; remove H; set(C, c); 4
op_003f(s, m) ==
    LET c  == ~contains(s.status, FlagC)
        f1 == remove(s.status, FlagN)
        f2 == remove(f1, FlagH)
        f3 == set(f2, FlagC, c)
    IN  Ret([s EXCEPT !.status = f3], m, 4)

\* 1 << n, for the bit n an opcode of the extended page names
test_bit(code) == 2 ^ ((code \div 8) % 8)

\* the write-back of RES n,r / SET n,r
bit_writeback(code, s, m, res) ==
    IF slot(code) = 6
    THEN Ret(s, mem_write(m, get_hl(s), res), 16)
    ELSE Ret(set8(slot(code), s, res), m, 8)

\* BIT n,r:  let z = (v & test_bit) == 0; set(Z, z); remove N; insert H; 8
op_bit(code, s, m) ==
    LET v  == operand8(code, s, m)
        z  == bitand(v, test_bit(code)) = 0
        f1 == set(s.status, FlagZ, z)
        f2 == remove(f1, FlagN)
        f3 == insert(f2, FlagH)
    IN  Ret([s EXCEPT !.status = f3], m, IF slot(code) = 6 THEN 12 ELSE 8)

\* RES n,r:  let res = v & !(1 << n); self.set_r(res); 8
op_res(code, s, m) ==
    LET v == operand8(code, s, m)
    IN  bit_writeback(code, s, m, v - bitand(v, test_bit(code)))

\* SET n,r:  let res = v | (1 << n); self.set_r(res); 8
op_set(code, s, m) ==
    LET v == operand8(code, s, m)
    IN  bit_writeback(code, s, m, bitor(v, test_bit(code)))

(***************************************************************************)
(* ADD HL,rr and the shifts and rotates of the extended page.              *)
(***************************************************************************)
AddHlCodes == {9, 25, 41, 57}           \* 0x09 0x19 0x29 0x39  ADD HL,rr

\* ADD HL,rr:  let (res, z, h, c) = alu::add_u16(x, y, false); self.set_hl(res);
\*             remove N; set(H, h); set(C, c); 8
op_add_hl(code, s, m) ==
    LET x   == get_hl(s)
        y   == CASE code = 9  -> get_bc(s)
                 [] code = 25 -> get_de(s)
                 [] code = 41 -> get_hl(s)
                 [] code = 57 -> get_sp(s)
        t   == add_u16(x, y, FALSE)
        res == t[1]
        h   == t[3]
        c   == t[4]
        s1  == set_hl(s, res)
        f1  == remove(s1.status, FlagN)
        f2  == set(f1, FlagH, h)
        f3  == set(f2, FlagC, c)
    IN  Ret([s1 EXCEPT !.status = f3], m, 8)

RlcCodes == 51968 .. 51975      \* 0xCB00-0xCB07  RLC r
RrcCodes == 51976 .. 51983      \* 0xCB08-0xCB0F  RRC r
RlCodes  == 51984 .. 51991      \* 0xCB10-0xCB17  RL r
RrCodes  == 51992 .. 51999      \* 0xCB18-0xCB1F  RR r
SlaCodes == 52000 .. 52007      \* 0xCB20-0xCB27  SLA r
SraCodes == 52008 .. 52015      \* 0xCB28-0xCB2F  SRA r
SrlCodes == 52024 .. 52031      \* 0xCB38-0xCB3F  SRL r

ShiftCodes ==
    RlcCodes \cup RrcCodes \cup RlCodes \cup RrCodes \cup SlaCodes \cup SraCodes
        \cup SrlCodes

\* self.set_r(res); set(Z, z); remove N; remove H; set(C, c); 8
shift_result(code, s, m, res, z, c) ==
    LET r  == bit_writeback(code, s, m, res)
        f1 == set(r.cpu.status, FlagZ, z)
        f2 == remove(f1, FlagN)
        f3 == remove(f2, FlagH)
        f4 == set(f3, FlagC, c)
    IN  [r EXCEPT !.cpu.status = f4]

\* carry-in bit of RL / RR:  if self.get_cf() { 1 } else { 0 }
get_cf(s) == contains(s.status, FlagC)

\* RLC:  let res = v.rotate_left(1); let z = res == 0; let c = v & 0x80 != 0
op_rlc(code, s, m) ==
    LET v   == operand8(code, s, m)
        res == ((v * 2) % 256) + (v \div 128)
    IN  shift_result(code, s, m, res, res = 0, bitand(v, 128) # 0)

\* RRC:  let res = v.rotate_right(1); let z = res == 0; let c = v & 0x01 != 0
op_rrc(code, s, m) ==
    LET v   == operand8(code, s, m)
        res == (v \div 2) + ((v % 2) * 128)
    IN  shift_result(code, s, m, res, res = 0, bitand(v, 1) # 0)

\* RL:  let mut res = v.wrapping_shl(1); res |= carry; z = res == 0; c = v & 0x80 != 0
op_rl(code, s, m) ==
    LET v   == operand8(code, s, m)
        res == bitor((v * 2) % 256, IF get_cf(s) THEN 1 ELSE 0)
    IN  shift_result(code, s, m, res, res = 0, bitand(v, 128) # 0)

\* RR:  let mut res = v.wrapping_shr(1); res |= carry << 7; z = res == 0; c = v & 0x01 != 0
op_rr(code, s, m) ==
    LET v   == operand8(code, s, m)
        res == bitor(v \div 2, IF get_cf(s) THEN 128 ELSE 0)
    IN  shift_result(code, s, m, res, res = 0, bitand(v, 1) # 0)

\* SLA:  let res = v.wrapping_shl(1); let z = v == 0; let c = v & 0x80 != 0
op_sla(code, s, m) ==
    LET v   == operand8(code, s, m)
        res == (v * 2) % 256
    IN  shift_result(code, s, m, res, v = 0, bitand(v, 128) # 0)

\* SRA:  let msb = v & 0x80; let res = v.wrapping_shr(1) | msb; z = res == 0; c = v & 0x01 != 0
op_sra(code, s, m) ==
    LET v   == operand8(code, s, m)
        res == bitor(v \div 2, bitand(v, 128))
    IN  shift_result(code, s, m, res, res = 0, bitand(v, 1) # 0)

\* SRL:  let res = v.wrapping_shr(1); let z = res == 0; let c = v & 0x01 != 0
op_srl(code, s, m) ==
    LET v   == operand8(code, s, m)
        res == v \div 2
    IN  shift_result(code, s, m, res, res = 0, bitand(v, 1) # 0)

\* CPU::decode: dispatch on the code of the descriptor
decode(code, s, m) ==
    CASE code \in AddCodes   -> op_add(code, s, m)
      [] code \in AdcCodes   -> op_adc(code, s, m)
      [] code \in SubCodes   -> op_sub(code, s, m)
      [] code \in SbcCodes   -> op_sbc(code, s, m)
      [] code \in AndCodes   -> op_and(code, s, m)
      [] code \in XorCodes   -> op_xor(code, s, m)
      [] code \in OrCodes    -> op_or(code, s, m)
      [] code \in CpCodes    -> op_cp(code, s, m)
      [] code \in Inc8Codes  -> op_inc8(code, s, m)
      [] code \in Dec8Codes  -> op_dec8(code, s, m)
      [] code \in Inc16Codes -> op_inc16(code, s, m)
      [] code \in Dec16Codes -> op_dec16(code, s, m)
      [] code = AddSpCode    -> op_00e8(s, m)
      [] code = LdHlSpCode   -> op_00f8(s, m)
      [] code \in JrCondCodes   -> op_jr_cond(code, s, m)
      [] code \in RetCondCodes  -> op_ret_cond(code, s, m)
      [] code \in JpCondCodes   -> op_jp_cond(code, s, m)
      [] code \in CallCondCodes -> op_call_cond(code, s, m)
      [] code \in PushCodes     -> op_push(code, s, m)
      [] code \in PopCodes \ {241} -> op_pop(code, s, m)
      [] code = 241            -> op_00f1(s, m)
      [] code \in LdRegCodes    -> op_ld_rr(code, s, m)
      [] code \in LdImmCodes    -> op_ld_imm(code, s, m)
      [] code \in LdMemCodes    -> op_ld_mem(code, s, m)
      [] code \in LdHighCodes   -> op_ld_high(code, s, m)
      [] code \in LdWideCodes   -> op_ld_u16(code, s, m)
      [] code = 8              -> op_0008(s, m)
      [] code = 249            -> op_00f9(s, m)
      [] code = 24             -> op_0018(s, m)
      [] code = 195            -> op_00c3(s, m)
      [] code = 233            -> op_00e9(s, m)
      [] code = 205            -> op_00cd(s, m)
      [] code = 201            -> op_00c9(s, m)
      [] code \in RstCodes      -> op_rst(code, s, m)
      [] code = NopCode        -> op_0000(s, m)
      [] code = CplCode        -> op_002f(s, m)
      [] code = ScfCode        -> op_0037(s, m)
      [] code = CcfCode        -> op_003f(s, m)
      [] code \in BitCodes      -> op_bit(code, s, m)
      [] code \in ResCodes      -> op_res(code, s, m)
      [] code \in SetCodes      -> op_set(code, s, m)
      [] code \in AddHlCodes    -> op_add_hl(code, s, m)
      [] code \in RlcCodes      -> op_rlc(code, s, m)
      [] code \in RrcCodes      -> op_rrc(code, s, m)
      [] code \in RlCodes       -> op_rl(code, s, m)
      [] code \in RrCodes       -> op_rr(code, s, m)
      [] code \in SlaCodes      -> op_sla(code, s, m)
      [] code \in SraCodes      -> op_sra(code, s, m)
      [] code \in SrlCodes      -> op_srl(code, s, m)

(***************************************************************************)
(* SpecOps: one call of CPU::decode on a sampled CPU state.  The opcode    *)
(* has been fetched: program_counter addresses the byte after it.          *)
(***************************************************************************)
\* address of the byte after the opcode in the sampled states
OpsPc == 257

FlagSamples == {0, FlagC, FlagZ + FlagN + FlagH, FlagZ + FlagN + FlagH + FlagC}

swap_nibbles(v) == (v % 16) * 16 + (v \div 16)

\* memory with the operand byte y behind HL (when HL is a cell) and at pc
OpsMemory(s, y) ==
    LET m1 == IF in_bounds(get_hl(s)) THEN mem_write(<< >>, get_hl(s), y) ELSE << >>
    IN  mem_write(m1, s.program_counter, y)

InitOps ==
    /\ \E x \in SampleBytes, y \in SampleBytes, z \in {0, 255}, f \in FlagSamples :
          /\ cpu = [a |-> x, b |-> y, c |-> z, d |-> 255 - y, e |-> 255 - z,
                    h |-> swap_nibbles(y), l |-> z, status |-> f,
                    program_counter |-> OpsPc, stack_pointer |-> y * 256 + x]
          /\ memory = OpsMemory(cpu, y)
    /\ alu = AluIdle
    /\ last = LastIdle
    /\ run = "fetched"
    /\ program = << >>
    /\ mmu = MmuIdle
    /\ call = CallIdle

\* CPU::decode on the CPU state s, the opcode being fetched; an index out of
\* bounds and a fault of the routine end the run
Execute(code, s) ==
    LET r == IF \A addr \in touched(code, s) : in_bounds(addr)
             THEN decode(code, s, memory)
             ELSE Panic(s, memory)
    IN  /\ last' = [code |-> code, pre |-> s, premem |-> memory, cycles |-> r.cycles,
                    prior |-> [code |-> last.code, pre |-> last.pre]]
        /\ IF r.fault
           THEN /\ run' = "panicked"
                /\ UNCHANGED << cpu, memory >>
           ELSE /\ run' = "executed"
                /\ cpu' = r.cpu
                /\ memory' = r.memory
        /\ UNCHANGED << alu, program, bus_vars >>

Dispatch(code) ==
    /\ run = "fetched"
    /\ Execute(code, cpu)

DecodeAddSub == \E code \in AddCodes \cup AdcCodes \cup SubCodes \cup SbcCodes : Dispatch(code)

DecodeLogic == \E code \in AndCodes \cup XorCodes \cup OrCodes : Dispatch(code)

DecodeCp == \E code \in CpCodes : Dispatch(code)

DecodeIncDec8 == \E code \in Inc8Codes \cup Dec8Codes : Dispatch(code)

DecodeIncDec16 == \E code \in Inc16Codes \cup Dec16Codes : Dispatch(code)

DecodeSpRel == \E code \in {AddSpCode, LdHlSpCode} : Dispatch(code)

NextOps ==
    \/ DecodeAddSub
    \/ DecodeLogic
    \/ DecodeCp
    \/ DecodeIncDec8
    \/ DecodeIncDec16
    \/ DecodeSpRel

SpecOps == InitOps /\ [][NextOps]_vars

(***************************************************************************)
(* SpecStack: CPU::decode on sampled CPU states whose stack pointer lies   *)
(* in, at the edges of and outside the high-RAM window; a POP may follow   *)
(* a PUSH.                                                                 *)
(***************************************************************************)
\* 0x0000 0xFF7E 0xFF80 0xFF81 0xFF82 0xFFF0 0xFFFC 0xFFFD 0xFFFE 0xFFFF
StackSamples == {0, 65406, 65408, 65409, 65410, 65520, 65532, 65533, 65534, 65535}

\* memory with the word hi:lo at the program counter and the word
\* hi:(0xFF - lo) at the stack pointer, where those are cells
StackMemory(s, lo, hi) ==
    LET put(m, addr, v) == IF in_bounds(addr) THEN mem_write(m, addr, v) ELSE m
        pc == s.program_counter
        sp == s.stack_pointer
    IN  put(put(put(put(<< >>, pc, lo), wrapping_add16(pc, 1), hi),
                sp, 255 - lo), wrapping_add16(sp, 1), hi)

InitStack ==
    /\ \E x \in EdgeBytes, y \in EdgeBytes, f \in FlagSamples, sp \in StackSamples :
          /\ cpu = [a |-> (y + 3) % 256, b |-> y, c |-> x, d |-> 255 - y,
                    e |-> 255 - x, h |-> swap_nibbles(y), l |-> (x + 2) % 256,
                    status |-> f, program_counter |-> OpsPc, stack_pointer |-> sp]
          /\ memory = StackMemory(cpu, x, y)
    /\ alu = AluIdle
    /\ last = LastIdle
    /\ run = "fetched"
    /\ program = << >>
    /\ mmu = MmuIdle
    /\ call = CallIdle

DecodeCond == \E code \in CondCodes : Dispatch(code)

DecodePush == \E code \in PushCodes : Dispatch(code)

DecodePop == \E code \in PopCodes : Dispatch(code)

\* the opcode after a PUSH is a POP: the post-execute adjustment of the PUSH
\* adds bytes - 1 = 0 and the fetch of the POP moves the counter over its byte
DecodePopAfterPush ==
    /\ run = "executed"
    /\ last.code \in PushCodes
    /\ \E code \in PopCodes :
          Execute(code, [cpu EXCEPT !.program_counter = wrapping_add16(@, 1)])

NextStack ==
    \/ NextOps
    \/ DecodeCond
    \/ DecodePush
    \/ DecodePop
    \/ DecodePopAfterPush

SpecStack == InitStack /\ [][NextStack]_vars

(***************************************************************************)
(* SpecMoves: CPU::decode of the loads, moves, jumps, calls, returns, the  *)
(* stack opcodes and the bit opcodes on the sampled CPU states of          *)
(* SpecStack, whose registers hold pairwise different bytes.               *)
(***************************************************************************)
DecodeLdReg == \E code \in LdRegCodes : Dispatch(code)

DecodeLoad ==
    \E code \in LdImmCodes \cup LdMemCodes \cup LdHighCodes \cup LdWideCodes
                  \cup {8, 249, LdHlSpCode} : Dispatch(code)

DecodeJump == \E code \in {24, 195, 233, 205, 201} \cup RstCodes : Dispatch(code)

DecodeBit == \E code \in BitCodes : Dispatch(code)

DecodeResSet == \E code \in ResCodes \cup SetCodes : Dispatch(code)

DecodeMisc == \E code \in {NopCode, CplCode, ScfCode, CcfCode} : Dispatch(code)

\* RET fetched at the target of the CALL that has just run: the stack pointer
\* and the pushed bytes are as the CALL left them
DecodeRetAfterCall ==
    /\ run = "executed"
    /\ last.code = 205
    /\ Execute(201, [cpu EXCEPT !.program_counter = wrapping_add16(@, 1)])

NextMoves ==
    \/ DecodeLdReg
    \/ DecodeLoad
    \/ DecodeJump
    \/ DecodeCond
    \/ DecodePush
    \/ DecodePop
    \/ DecodeBit
    \/ DecodeResSet
    \/ DecodeMisc
    \/ DecodeRetAfterCall

SpecMoves == InitStack /\ [][NextMoves]_vars

(***************************************************************************)
(* SpecShifts: one call of CPU::decode of ADD HL,rr or of a shift or       *)
(* rotate of the extended page, on CPU states whose bytes include the      *)
(* ones with only bit 7 or only bit 0 set.                                 *)
(***************************************************************************)
ShiftBytes == {0, 1, 15, 128, 240, 255}

InitShifts ==
    /\ \E x \in ShiftBytes, y \in ShiftBytes, z \in {0, 255}, f \in FlagSamples :
          /\ cpu = [a |-> x, b |-> y, c |-> z, d |-> 255 - y, e |-> 255 - z,
                    h |-> swap_nibbles(y), l |-> z, status |-> f,
                    program_counter |-> OpsPc, stack_pointer |-> y * 256 + x]
          /\ memory = OpsMemory(cpu, y)
    /\ alu = AluIdle
    /\ last = LastIdle
    /\ run = "fetched"
    /\ program = << >>
    /\ mmu = MmuIdle
    /\ call = CallIdle

DecodeAddHl == \E code \in AddHlCodes : Dispatch(code)

DecodeShift == \E code \in ShiftCodes : Dispatch(code)

NextShifts ==
    \/ DecodeAddHl
    \/ DecodeShift

SpecShifts == InitShifts /\ [][NextShifts]_vars

(***************************************************************************)
(* SpecRegs: the register accessors of cpu.rs called on sampled CPU        *)
(* states.                                                                 *)
(***************************************************************************)
Regs8 == {"a", "b", "c", "d", "e", "h", "l"}

Pairs == {"bc", "de", "hl"}

\* self.get_r()
get8(r, s) ==
    CASE r = "a" -> get_a(s)
      [] r = "b" -> get_b(s)
      [] r = "c" -> get_c(s)
      [] r = "d" -> get_d(s)
      [] r = "e" -> get_e(s)
      [] r = "h" -> get_h(s)
      [] r = "l" -> get_l(s)

\* self.get_xy()
get16(pair, s) ==
    CASE pair = "bc" -> get_bc(s)
      [] pair = "de" -> get_de(s)
      [] pair = "hl" -> get_hl(s)

\* self.set_xy(data)
set16(pair, s, data) ==
    CASE pair = "bc" -> set_bc(s, data)
      [] pair = "de" -> set_de(s, data)
      [] pair = "hl" -> set_hl(s, data)

\* 0x1234 and the edge words
RegWords == SampleWords \cup {4660}

InitRegs ==
    /\ \E x \in EdgeBytes, y \in EdgeBytes, f \in {0, 240} :
          cpu = [a |-> x, b |-> y, c |-> (x + 1) % 256, d |-> (y + 2) % 256,
                 e |-> 255 - x, h |-> 255 - y, l |-> (x + y + 5) % 256,
                 status |-> f, program_counter |-> 0, stack_pointer |-> 0]
    /\ memory = << >>
    /\ alu = AluIdle
    /\ last = LastIdle
    /\ run = "idle"
    /\ program = << >>
    /\ mmu = MmuIdle
    /\ call = CallIdle

call_get8 ==
    /\ call.fn = "none"
    /\ \E r \in Regs8 :
          call' = [fn |-> "get8", args |-> << r >>, out |-> << get8(r, cpu) >>,
                   fault |-> FALSE, prev |-> [fn |-> call.fn, args |-> call.args]]
    /\ UNCHANGED << alu, cpu, memory, last, run, program, mmu >>

call_set16 ==
    /\ call.fn = "none"
    /\ \E pair \in Pairs, data \in RegWords :
          /\ cpu' = set16(pair, cpu, data)
          /\ call' = [fn |-> "set16", args |-> << pair, data >>, out |-> << >>,
                      fault |-> FALSE, prev |-> [fn |-> call.fn, args |-> call.args]]
    /\ last' = [LastIdle EXCEPT !.pre = cpu]
    /\ UNCHANGED << alu, memory, run, program, mmu >>

call_get16 ==
    /\ call.fn \in {"none", "set16"}
    /\ \E pair \in Pairs :
          call' = [fn |-> "get16", args |-> << pair >>, out |-> << get16(pair, cpu) >>,
                   fault |-> FALSE, prev |-> [fn |-> call.fn, args |-> call.args]]
    /\ UNCHANGED << alu, cpu, memory, last, run, program, mmu >>

NextRegs ==
    \/ call_get8
    \/ call_set16
    \/ call_get16

SpecRegs == InitRegs /\ [][NextRegs]_vars

(***************************************************************************)
(* src/src/opcodes.rs: the descriptors of OPCODES_LIST with a one-byte     *)
(* code (0x0000-0x00FF).                                                   *)
(***************************************************************************)
\* first bytes without a descriptor: D3 DB DD E3 E4 EB EC ED F4 FC FD
Unassigned == {211, 219, 221, 227, 228, 235, 236, 237, 244, 252, 253}

\* descriptors of byte length 2
TwoByteCodes ==
    {6, 14, 22, 24, 30, 32, 38, 40, 46, 48, 54, 56, 62, 198, 206, 214, 222,
     224, 230, 232, 238, 240, 246, 248, 254}

\* descriptors of byte length 3
ThreeByteCodes ==
    {1, 8, 17, 33, 49, 194, 195, 196, 202, 204, 205, 210, 212, 218, 220, 234, 250}

\* Opcode::bytes of the descriptor of a one-byte code
opcode_bytes(code) ==
    IF code \in ThreeByteCodes THEN 3
    ELSE IF code \in TwoByteCodes THEN 2
    ELSE 1

(***************************************************************************)
(* src/src/cpu.rs: CPU::new, CPU::load_and_run and CPU::run.               *)
(***************************************************************************)
\* CPU::new()
CPU_new ==
    [a |-> 0, b |-> 0, c |-> 0, d |-> 0, e |-> 0, h |-> 0, l |-> 0,
     status |-> 0, program_counter |-> 0, stack_pointer |-> 0]

\* result of a match arm: the CPU, the memory and the addresses it indexed
Arm(s, m, addrs) == [cpu |-> s, memory |-> m, addrs |-> addrs]

\* the codes CPU::run has a match arm for, besides STOP and HALT
RunArms == {0} \cup LdImmCodes \cup LdRegCodes \cup LdMemCodes \cup LdHighCodes

\* assignment to the register or memory cell in slot i (0..7 = B C D E H L (HL) A)
store8(i, s, m, v) ==
    CASE i = 0 -> Arm([s EXCEPT !.b = v], m, {})
      [] i = 1 -> Arm([s EXCEPT !.c = v], m, {})
      [] i = 2 -> Arm([s EXCEPT !.d = v], m, {})
      [] i = 3 -> Arm([s EXCEPT !.e = v], m, {})
      [] i = 4 -> Arm([s EXCEPT !.h = v], m, {})
      [] i = 5 -> Arm([s EXCEPT !.l = v], m, {})
      [] i = 6 -> Arm(s, mem_write(m, get_hl(s), v), {get_hl(s)})
      [] i = 7 -> Arm([s EXCEPT !.a = v], m, {})

\* the right-hand side of the arm of LD r,r' (0x59, 0x69 and 0x79 read self.d)
ld_source(code, s, m) ==
    CASE code \in {89, 105, 121} -> s.d
      [] code % 8 = 0 -> s.b
      [] code % 8 = 1 -> s.c
      [] code % 8 = 2 -> s.d
      [] code % 8 = 3 -> s.e
      [] code % 8 = 4 -> s.h
      [] code % 8 = 5 -> s.l
      [] code % 8 = 6 -> mem_read(m, get_hl(s))
      [] code % 8 = 7 -> s.a

\* arms 0x40-0x7F
arm_ld_reg(code, s, m) ==
    LET w == store8((code - 64) \div 8, s, m, ld_source(code, s, m))
    IN  Arm(w.cpu, w.memory,
            w.addrs \cup (IF code % 8 = 6 /\ code \notin {89, 105, 121}
                          THEN {get_hl(s)} ELSE {}))

\* arms 0x06 0x0E 0x16 0x1E 0x26 0x2E 0x36 0x3E
arm_ld_imm(code, s, m) ==
    LET w == store8(code \div 8, s, m, mem_read(m, s.program_counter))
    IN  Arm(w.cpu, w.memory, w.addrs \cup {s.program_counter})

\* arms 0x02 0x0A 0x12 0x1A 0x22 0x2A 0x32 0x3A
arm_ld_mem(code, s, m) ==
    CASE code = 2  -> Arm(s, mem_write(m, get_bc(s), s.a), {get_bc(s)})
      [] code = 10 -> Arm([s EXCEPT !.a = mem_read(m, get_bc(s))], m, {get_bc(s)})
      [] code = 18 -> Arm(s, mem_write(m, get_de(s), s.a), {get_de(s)})
      [] code = 26 -> Arm([s EXCEPT !.a = mem_read(m, get_de(s))], m, {get_de(s)})
      [] code = 34 -> Arm(set_hl(s, wrapping_add16(get_hl(s), 1)),
                          mem_write(m, get_hl(s), s.a), {get_hl(s)})
      [] code = 42 -> Arm(set_hl([s EXCEPT !.a = mem_read(m, get_hl(s))],
                                 wrapping_add16(get_hl(s), 1)), m, {get_hl(s)})
      [] code = 50 -> Arm(set_hl(s, wrapping_sub16(get_hl(s), 1)),
                          mem_write(m, get_hl(s), s.a), {get_hl(s)})
      [] code = 58 -> Arm(set_hl([s EXCEPT !.a = mem_read(m, get_hl(s))],
                                 wrapping_sub16(get_hl(s), 1)), m, {get_hl(s)})

\* arms 0xE0 0xF0 0xE2 0xF2 0xEA 0xFA
arm_ld_high(code, s, m) ==
    LET pc   == s.program_counter
        imm  == wrapping_add16(65280, mem_read(m, pc))
        offc == 65280 + s.c
        abs  == mem_read_u16(m, pc)
        wide == {pc, wrapping_add16(pc, 1)}
    IN  CASE code = 224 -> Arm(s, mem_write(m, imm, s.a), {pc, imm})
          [] code = 240 -> Arm([s EXCEPT !.a = mem_read(m, imm)], m, {pc, imm})
          [] code = 226 -> Arm(s, mem_write(m, offc, s.a), {offc})
          [] code = 242 -> Arm([s EXCEPT !.a = mem_read(m, offc)], m, {offc})
          [] code = 234 -> Arm(s, mem_write(m, abs, s.a), wide \cup {abs})
          [] code = 250 -> Arm([s EXCEPT !.a = mem_read(m, abs)], m, wide \cup {abs})

\* the match of CPU::run, for a code in RunArms
run_arm(code, s, m) ==
    CASE code = 0 -> Arm(s, m, {})
      [] code \in LdImmCodes  -> arm_ld_imm(code, s, m)
      [] code \in LdRegCodes  -> arm_ld_reg(code, s, m)
      [] code \in LdMemCodes  -> arm_ld_mem(code, s, m)
      [] code \in LdHighCodes -> arm_ld_high(code, s, m)

Outcome(kind, code, s, m) == [kind |-> kind, code |-> code, cpu |-> s, memory |-> m]

\* the post-execute adjustment:
\*   if self.program_counter == pc_state { self.program_counter += bytes - 1 }
\* an overflow of the u16 addition panics or wraps, depending on the build
post_execute(code, pc_state, s, m) ==
    IF s.program_counter # pc_state
    THEN {Outcome("continue", code, s, m)}
    ELSE LET sum == s.program_counter + opcode_bytes(code) - 1
         IN  IF sum <= 65535
             THEN {Outcome("continue", code, [s EXCEPT !.program_counter = sum], m)}
             ELSE {Outcome("panic", code, s, m),
                   Outcome("continue", code,
                           [s EXCEPT !.program_counter = sum % 65536], m)}

\* a loop iteration that steps over a code without a descriptor as over a NOP
run_iteration_skip(s, m) ==
    IF ~in_bounds(s.program_counter)
    THEN {Outcome("panic", -1, s, m)}
    ELSE
      LET code     == mem_read(m, s.program_counter)
          pc_state == s.program_counter + 1
          s1       == [s EXCEPT !.program_counter = pc_state]
      IN  IF code \in Unassigned
          THEN post_execute(code, pc_state, s1, m)
          ELSE IF code = StopCode
          THEN {Outcome("stop", code, s1, m)}
          ELSE IF code \notin RunArms
          THEN {Outcome("panic", code, s1, m)}
          ELSE LET r == run_arm(code, s1, m)
               IN  IF \E addr \in r.addrs : ~in_bounds(addr)
                   THEN {Outcome("panic", code, s1, m)}
                   ELSE post_execute(code, pc_state, r.cpu, r.memory)

\* one iteration of the loop of CPU::run: the set of its possible outcomes
run_iteration(s, m) ==
    IF ~in_bounds(s.program_counter)
    THEN {Outcome("panic", -1, s, m)}                   \* index out of bounds
    ELSE
      LET code     == mem_read(m, s.program_counter)
          pc_state == s.program_counter + 1
          s1       == [s EXCEPT !.program_counter = pc_state]
      IN  IF code \in Unassigned
          THEN {Outcome("panic", code, s1, m)}          \* expect(): not recognized
          ELSE IF code = StopCode
          THEN {Outcome("stop", code, s1, m)}           \* return
          ELSE IF code \notin RunArms
          THEN {Outcome("panic", code, s1, m)}          \* todo!()
          ELSE LET r == run_arm(code, s1, m)
               IN  IF \E addr \in r.addrs : ~in_bounds(addr)
                   THEN {Outcome("panic", code, s1, m)} \* index out of bounds
                   ELSE post_execute(code, pc_state, r.cpu, r.memory)

(***************************************************************************)
(* SpecRun: CPU::load_and_run on the programs                              *)
(*   LD A,a; LD B,b; <op> <operand bytes 0x10...>; STOP                    *)
(* for every first byte <op>.                                              *)
(***************************************************************************)
RunBytesA == SampleBytes \cup {5}

RunBytesB == {0, 3, 255}

\* n bytes 0x10
Stops(n) == [i \in 1 .. n |-> StopCode]

Programs ==
    {<< 62, a, 6, b, op >> \o Stops(opcode_bytes(op)) :
        a \in RunBytesA, b \in RunBytesB, op \in 0 .. 255}

InitRun ==
    /\ cpu = CPU_new
    /\ memory = << >>
    /\ run = "idle"
    /\ program = << >>
    /\ mmu = MmuIdle
    /\ call = CallIdle
    /\ last = LastIdle
    /\ alu = AluIdle

\* for i in 0..program.len(): self.mem_write(i, program[i])
load(m, prog) ==
    LET nonzero == {i \in 0 .. Len(prog) - 1 : prog[i + 1] # 0}
    IN  [x \in (DOMAIN m \ (0 .. Len(prog) - 1)) \cup nonzero |->
            IF x \in nonzero THEN prog[x + 1] ELSE m[x]]

\* CPU::load_and_run up to the call of run()
LoadAndRun ==
    /\ run = "idle"
    /\ \E prog \in Programs :
          /\ program' = prog
          /\ memory' = load(memory, prog)
    /\ run' = "running"
    /\ UNCHANGED << cpu, last, alu, bus_vars >>

RunStep(kind, pos) ==
    /\ run = "running"
    /\ \E o \in run_iteration(cpu, memory) :
          /\ o.kind = kind
          /\ cpu' = o.cpu
          /\ memory' = o.memory
          /\ last' = [code |-> o.code, pre |-> cpu, premem |-> memory, cycles |-> 0,
                      prior |-> [code |-> last.code, pre |-> last.pre]]
    /\ run' = pos
    /\ UNCHANGED << alu, program, bus_vars >>

RunContinue == RunStep("continue", "running")

RunStop == RunStep("stop", "stopped")

RunPanic == RunStep("panic", "panicked")

NextRun ==
    \/ LoadAndRun
    \/ RunContinue
    \/ RunStop
    \/ RunPanic

SpecRun == InitRun /\ [][NextRun]_vars

(***************************************************************************)
(* Cartridge bank controllers: src/src/cartridge/mbc0.rs (MBC0) and        *)
(* src/src/cartridge/mbc1.rs, src/src/cartridge/mbc/mbc1.rs (MBC1).        *)
(*                                                                         *)
(* A cartridge image is [len, type, ram_code]: len bytes, of which the     *)
(* byte at 0x0147 is the cartridge type and the byte at 0x0149 the RAM     *)
(* size code; raw_byte gives every other byte.  The RAM vector is          *)
(* [len, cells]: len bytes, all 0 but the cells written so far.            *)
(***************************************************************************)
\* bytes in one switchable ROM bank (0x4000) and in one RAM bank (0x2000)
RomBankSize == 16384

RamBankSize == 8192

\* the enable sentinel of write_rom's 0x0000..=0x1FFF arm
RamEnableByte == 10

\* stores into cartridge RAM in one behaviour
MaxRamStores == 1

\* raw[i], for i < raw.len: never 0, and different from bank to bank
raw_byte(raw, i) ==
    CASE i = 327 -> raw.type
      [] i = 329 -> raw.ram_code
      [] OTHER -> (((i \div RomBankSize) * 16) % 256) + ((i % RomBankSize) % 7) + 1

\* *self.rom.get(index).unwrap_or(&0)
rom_get(raw, index) == IF index < raw.len THEN raw_byte(raw, index) ELSE 0

\* *self.ram.get(index).unwrap_or(&0)
ram_get(ram, index) ==
    IF index < ram.len
    THEN IF index \in DOMAIN ram.cells THEN ram.cells[index] ELSE 0
    ELSE 0

\* the byte size of the RAM size code of the header
get_ram_size(ram_code) ==
    CASE ram_code = 2 -> 8192
      [] ram_code = 3 -> 32768
      [] ram_code = 4 -> 131072
      [] ram_code = 5 -> 16384
      [] OTHER -> 0

MBC0_new(raw) == [kind |-> "mbc0", rom |-> raw]

\* file is the source file of the controller: the two differ in write_rom.
\* No save file exists yet, so load_save_file leaves the RAM zeroed.
MBC1_new(raw, file) ==
    LET ram_size == CASE raw.type = 2 -> get_ram_size(raw.ram_code)
                      [] raw.type = 3 -> get_ram_size(raw.ram_code)
                      [] OTHER -> 0
    IN  [kind |-> "mbc1", file |-> file, rom |-> raw,
         ram |-> [len |-> ram_size, cells |-> [i \in {} |-> 0]],
         rom_bank_idx |-> 1, ram_bank_idx |-> 0,
         ram_enabled |-> FALSE, ram_mode |-> FALSE]

\* the result of a controller call: the controller after it, the byte
\* returned (reads) and whether the call panicked
Done(mbc, out) == [mbc |-> mbc, out |-> out, fault |-> FALSE]

Fault(mbc) == [mbc |-> mbc, out |-> << >>, fault |-> TRUE]

\* self.rom[addr as usize]
MBC0_read_rom(mbc, addr) ==
    IF addr < mbc.rom.len THEN Done(mbc, << raw_byte(mbc.rom, addr) >>)
    ELSE Fault(mbc)

MBC0_read_ram(mbc, addr) == Done(mbc, << 0 >>)

MBC0_write_rom(mbc, addr, data) == Done(mbc, << >>)

MBC0_write_ram(mbc, addr, data) == Done(mbc, << >>)

MBC1_read_rom_flat(mbc, addr) ==
    IF addr <= 16383 THEN Done(mbc, << rom_get(mbc.rom, addr) >>)
    ELSE IF addr <= 32767
    THEN Done(mbc, << rom_get(mbc.rom, mbc.rom_bank_idx * RomBankSize + addr) >>)
    ELSE Done(mbc, << 0 >>)

MBC1_read_rom(mbc, addr) ==
    IF addr <= 16383 THEN Done(mbc, << rom_get(mbc.rom, addr) >>)
    ELSE IF addr <= 32767
    THEN Done(mbc, << rom_get(mbc.rom,
                              mbc.rom_bank_idx * RomBankSize + (addr - 16384)) >>)
    ELSE Done(mbc, << 0 >>)

\* the RAM window is 0xA000..=0xBFFF, from which the code subtracts 0x2000
MBC1_read_ram(mbc, addr) ==
    IF ~mbc.ram_enabled THEN Done(mbc, << 0 >>)
    ELSE Done(mbc, << ram_get(mbc.ram,
                              mbc.ram_bank_idx * RamBankSize + (addr - 8192)) >>)

\* the register whose bits 5 and 6 the 0x2000..=0x3FFF arm keeps
kept_upper_bits(mbc) ==
    IF mbc.file = "cartridge/mbc1.rs" THEN bitand(mbc.rom_bank_idx, 96)
    ELSE bitand(mbc.ram_bank_idx, 96)

MBC1_write_rom_zero(mbc, addr, data) ==
    IF addr <= 8191 THEN Done([mbc EXCEPT !.ram_enabled = (data = RamEnableByte)], << >>)
    ELSE IF addr <= 16383
    THEN Done([mbc EXCEPT !.rom_bank_idx =
                   bitor(kept_upper_bits(mbc), bitand(data, 31))], << >>)
    ELSE IF addr <= 24575
    THEN IF mbc.ram_mode
         THEN Done([mbc EXCEPT !.ram_bank_idx = bitand(data, 3)], << >>)
         ELSE Done([mbc EXCEPT !.rom_bank_idx =
                        bitor(bitand(mbc.rom_bank_idx, 31), bitand(data, 3) * 32)],
                   << >>)
    ELSE IF addr <= 32767
    THEN Done([mbc EXCEPT !.ram_mode = (bitand(data, 1) = 1)], << >>)
    ELSE Fault(mbc)

MBC1_write_rom(mbc, addr, data) ==
    IF addr <= 8191 THEN Done([mbc EXCEPT !.ram_enabled = (data = RamEnableByte)], << >>)
    ELSE IF addr <= 16383
    THEN LET low == bitand(data, 31)
         IN  Done([mbc EXCEPT !.rom_bank_idx =
                       bitor(kept_upper_bits(mbc), IF low = 0 THEN 1 ELSE low)],
                  << >>)
    ELSE IF addr <= 24575
    THEN IF mbc.ram_mode
         THEN Done([mbc EXCEPT !.ram_bank_idx = bitand(data, 3)], << >>)
         ELSE Done([mbc EXCEPT !.rom_bank_idx =
                        bitor(bitand(mbc.rom_bank_idx, 31), bitand(data, 3) * 32)],
                   << >>)
    ELSE IF addr <= 32767
    THEN Done([mbc EXCEPT !.ram_mode = (bitand(data, 1) = 1)], << >>)
    ELSE Fault(mbc)

\* self.ram[index] = data
ram_store(mbc, index, data) ==
    IF index < mbc.ram.len
    THEN Done([mbc EXCEPT !.ram.cells = (index :> data) @@ mbc.ram.cells], << >>)
    ELSE Fault(mbc)

MBC1_write_ram_open(mbc, addr, data) ==
    LET bank == IF mbc.ram_mode THEN mbc.ram_bank_idx ELSE 0
    IN  ram_store(mbc, bank * RamBankSize + (addr - 8192), data)

MBC1_write_ram(mbc, addr, data) ==
    IF ~mbc.ram_enabled THEN Done(mbc, << >>)
    ELSE LET bank == IF mbc.ram_mode THEN mbc.ram_bank_idx ELSE 0
         IN  ram_store(mbc, bank * RamBankSize + (addr - 8192), data)

(***************************************************************************)
(* src/src/cartridge/mbc2.rs: 512 cells of 4-bit RAM inside the            *)
(* controller.  No save file exists yet, so load_save_file leaves the RAM  *)
(* zeroed.                                                                 *)
(***************************************************************************)
\* ram: vec![0; 0x200]
Mbc2RamSize == 512

MBC2_new(raw) ==
    [kind |-> "mbc2", rom |-> raw,
     ram |-> [len |-> Mbc2RamSize, cells |-> [i \in {} |-> 0]],
     rom_bank_idx |-> 1, ram_enabled |-> FALSE]

\* 0x0000..=0x3FFF => 0
MBC2_read_rom(mbc, addr) ==
    IF addr <= 16383 THEN Done(mbc, << rom_get(mbc.rom, 0) >>)
    ELSE IF addr <= 32767
    THEN Done(mbc, << rom_get(mbc.rom,
                              mbc.rom_bank_idx * RomBankSize + (addr - 16384)) >>)
    ELSE Done(mbc, << 0 >>)

\* let res = *self.rom.get(index).unwrap_or(&0); res & 0x0F
MBC2_read_ram(mbc, addr) ==
    LET index == (addr - 40960) % Mbc2RamSize
    IN  Done(mbc, << bitand(rom_get(mbc.rom, index), 15) >>)

\* 0x0000..=0x3FFF: bit 8 of the address selects the register
MBC2_write_rom(mbc, addr, data) ==
    IF addr <= 16383
    THEN IF bitand(addr, 256) = 0
         THEN Done([mbc EXCEPT !.ram_enabled = (bitand(data, 15) = RamEnableByte)], << >>)
         ELSE LET low == bitand(data, 15)
              IN  Done([mbc EXCEPT !.rom_bank_idx = IF low < 1 THEN 1 ELSE low], << >>)
    ELSE Fault(mbc)

\* self.ram[index] = data & 0x0F
MBC2_write_ram(mbc, addr, data) ==
    IF ~mbc.ram_enabled THEN Done(mbc, << >>)
    ELSE ram_store(mbc, (addr - 40960) % Mbc2RamSize, bitand(data, 15))

\* the MBC trait: the call goes to the variant the cartridge type selected
read_rom(mbc, addr) ==
    CASE mbc.kind = "mbc0" -> MBC0_read_rom(mbc, addr)
      [] mbc.kind = "mbc1" -> MBC1_read_rom(mbc, addr)
      [] mbc.kind = "mbc2" -> MBC2_read_rom(mbc, addr)

read_ram(mbc, addr) ==
    CASE mbc.kind = "mbc0" -> MBC0_read_ram(mbc, addr)
      [] mbc.kind = "mbc1" -> MBC1_read_ram(mbc, addr)
      [] mbc.kind = "mbc2" -> MBC2_read_ram(mbc, addr)

write_rom(mbc, addr, data) ==
    CASE mbc.kind = "mbc0" -> MBC0_write_rom(mbc, addr, data)
      [] mbc.kind = "mbc1" -> MBC1_write_rom(mbc, addr, data)
      [] mbc.kind = "mbc2" -> MBC2_write_rom(mbc, addr, data)

write_ram(mbc, addr, data) ==
    CASE mbc.kind = "mbc0" -> MBC0_write_ram(mbc, addr, data)
      [] mbc.kind = "mbc1" -> MBC1_write_ram(mbc, addr, data)
      [] mbc.kind = "mbc2" -> MBC2_write_ram(mbc, addr, data)

(***************************************************************************)
(* SpecMbc: a controller built from a sampled cartridge image receives     *)
(* any sequence of read_rom, read_ram, write_rom and write_ram calls, up   *)
(* to a call that panics.  mmu.enable_data is the byte of the latest       *)
(* write to 0x0000..=0x1FFF (-1 before any) and mmu.ram_stores counts the  *)
(* stores into cartridge RAM.                                              *)
(***************************************************************************)
\* six ROM banks with 128 KiB of battery RAM; two banks with 32 KiB of RAM;
\* one bank and no RAM
Mbc1Images == {[len |-> 6 * RomBankSize, type |-> 3, ram_code |-> 4],
               [len |-> 2 * RomBankSize, type |-> 2, ram_code |-> 3],
               [len |-> RomBankSize, type |-> 1, ram_code |-> 0]}

\* the controllers built: cartridge/mbc1.rs from every image, and
\* cartridge/mbc/mbc1.rs from a six-bank image without RAM
Mbc1Builds ==
    {MBC1_new(raw, "cartridge/mbc1.rs") : raw \in Mbc1Images}
    \cup {MBC1_new([len |-> 6 * RomBankSize, type |-> 1, ram_code |-> 0],
                   "cartridge/mbc/mbc1.rs")}

Mbc0Images == {[len |-> 2 * RomBankSize, type |-> 0, ram_code |-> 0],
               [len |-> RomBankSize, type |-> 0, ram_code |-> 0]}

\* 0x00, 0x05, 0x0A, 0xE0
CtrlData == {0, 5, RamEnableByte, 224}

\* 0x0000, 0x2000, 0x3FFF, 0x4000, 0x6000, 0x8000
CtrlAddrs == {0, 8192, 16383, 16384, 24576, 32768}

\* 0x0000, 0x4000, 0x7FFF, 0x8000
RomAddrs == {0, 16384, 32767, 32768}

\* 0xA000, 0xBFFF
RamAddrs == {40960, 49151}

\* 0x5A, 0xC3
RamData == {90, 195}

InitMbc ==
    /\ \E m \in Mbc1Builds \cup {MBC0_new(raw) : raw \in Mbc0Images} :
          mmu = [mbc |-> m, enable_data |-> -1, ram_stores |-> 0]
    /\ call = CallIdle
    /\ alu = AluIdle
    /\ cpu = CpuIdle
    /\ memory = << >>
    /\ last = LastIdle
    /\ run = "idle"
    /\ program = << >>

Called(fn, args, r) ==
    [fn |-> fn, args |-> args, out |-> r.out, fault |-> r.fault, prev |-> CallIdle.prev]

call_read_rom ==
    /\ ~call.fault
    /\ \E addr \in RomAddrs :
          LET r == read_rom(mmu.mbc, addr)
          IN  /\ mmu' = [mmu EXCEPT !.mbc = r.mbc]
              /\ call' = Called("read_rom", << addr >>, r)
    /\ UNCHANGED << alu, cpu, memory, last, run, program >>

call_read_ram ==
    /\ ~call.fault
    /\ \E addr \in RamAddrs :
          LET r == read_ram(mmu.mbc, addr)
          IN  /\ mmu' = [mmu EXCEPT !.mbc = r.mbc]
              /\ call' = Called("read_ram", << addr >>, r)
    /\ UNCHANGED << alu, cpu, memory, last, run, program >>

call_write_rom ==
    /\ ~call.fault
    /\ \E addr \in CtrlAddrs, data \in CtrlData :
          LET r == write_rom(mmu.mbc, addr, data)
          IN  /\ mmu' = [mmu EXCEPT !.mbc = r.mbc,
                                    !.enable_data = IF addr <= 8191 THEN data ELSE @]
              /\ call' = Called("write_rom", << addr, data >>, r)
    /\ UNCHANGED << alu, cpu, memory, last, run, program >>

call_write_ram ==
    /\ ~call.fault
    /\ \E addr \in RamAddrs, data \in RamData :
          LET r == write_ram(mmu.mbc, addr, data)
              stored == r.mbc # mmu.mbc
          IN  /\ stored => mmu.ram_stores < MaxRamStores
              /\ mmu' = [mmu EXCEPT !.mbc = r.mbc,
                                    !.ram_stores = IF stored THEN @ + 1 ELSE @]
              /\ call' = Called("write_ram", << addr, data >>, r)
    /\ UNCHANGED << alu, cpu, memory, last, run, program >>

NextMbc == call_read_rom \/ call_read_ram \/ call_write_rom \/ call_write_ram

SpecMbc == InitMbc /\ [][NextMbc]_vars

(***************************************************************************)
(* SpecBanks: one controller of each variant (MBC0, MBC1, MBC2) receives   *)
(* any sequence of calls, up to a call that panics, at addresses that      *)
(* tell the cells of the fixed ROM bank and of the 0x200-byte RAM apart.   *)
(***************************************************************************)
\* two banks, no controller; six banks with 128 KiB of RAM behind an MBC1;
\* four banks behind an MBC2
BankBuilds ==
    {MBC0_new([len |-> 2 * RomBankSize, type |-> 0, ram_code |-> 0]),
     MBC1_new([len |-> 6 * RomBankSize, type |-> 3, ram_code |-> 4], "cartridge/mbc1.rs"),
     MBC2_new([len |-> 4 * RomBankSize, type |-> 6, ram_code |-> 0])}

\* 0x0000, 0x0001, 0x3FFF, 0x4000
BankRomAddrs == {0, 1, 16383, 16384}

\* 0x0000, 0x0100, 0x2000, 0x6000
BankCtrlAddrs == {0, 256, 8192, 24576}

\* 0x00, 0x05, 0x0A, 0x1A
BankCtrlData == {0, 5, RamEnableByte, 26}

\* 0xA000, 0xA001, 0xA200, 0xBFFF
BankRamAddrs == {40960, 40961, 41472, 49151}

InitBanks ==
    /\ \E m \in BankBuilds : mmu = [mbc |-> m, enable_data |-> -1, ram_stores |-> 0]
    /\ call = CallIdle
    /\ alu = AluIdle
    /\ cpu = CpuIdle
    /\ memory = << >>
    /\ last = LastIdle
    /\ run = "idle"
    /\ program = << >>

bank_read_rom ==
    /\ ~call.fault
    /\ \E addr \in BankRomAddrs :
          LET r == read_rom(mmu.mbc, addr)
          IN  /\ mmu' = [mmu EXCEPT !.mbc = r.mbc]
              /\ call' = Called("read_rom", << addr >>, r)
    /\ UNCHANGED << alu, cpu, memory, last, run, program >>

bank_read_ram ==
    /\ ~call.fault
    /\ \E addr \in BankRamAddrs :
          LET r == read_ram(mmu.mbc, addr)
          IN  /\ mmu' = [mmu EXCEPT !.mbc = r.mbc]
              /\ call' = Called("read_ram", << addr >>, r)
    /\ UNCHANGED << alu, cpu, memory, last, run, program >>

bank_write_rom ==
    /\ ~call.fault
    /\ \E addr \in BankCtrlAddrs, data \in BankCtrlData :
          LET r == write_rom(mmu.mbc, addr, data)
          IN  /\ mmu' = [mmu EXCEPT !.mbc = r.mbc,
                                    !.enable_data = IF addr <= 8191 THEN data ELSE @]
              /\ call' = Called("write_rom", << addr, data >>, r)
    /\ UNCHANGED << alu, cpu, memory, last, run, program >>

bank_write_ram ==
    /\ ~call.fault
    /\ \E addr \in BankRamAddrs, data \in RamData :
          LET r == write_ram(mmu.mbc, addr, data)
              stored == r.mbc # mmu.mbc
          IN  /\ stored => mmu.ram_stores < MaxRamStores
              /\ mmu' = [mmu EXCEPT !.mbc = r.mbc,
                                    !.ram_stores = IF stored THEN @ + 1 ELSE @]
              /\ call' = Called("write_ram", << addr, data >>, r)
    /\ UNCHANGED << alu, cpu, memory, last, run, program >>

NextBanks == bank_read_rom \/ bank_read_ram \/ bank_write_rom \/ bank_write_ram

SpecBanks == InitBanks /\ [][NextBanks]_vars

(***************************************************************************)
(* src/src/timer.rs                                                        *)
(***************************************************************************)
Timer_new ==
    [divider |-> 0, counter |-> 0, modulo |-> 0, timer_ctrl |-> 0,
     timer_enabled |-> FALSE, clock_freq |-> 0, div_internal |-> 0,
     timer_internal |-> 0, interrupt |-> 0]

divider_once(t) ==
    IF t.div_internal >= 256
    THEN [t EXCEPT !.divider = (@ + 1) % 256, !.div_internal = @ - 256]
    ELSE t

\* while self.div_internal >= 256 { .. }
RECURSIVE divider_loop(_)
divider_loop(t) ==
    IF t.div_internal >= 256
    THEN divider_loop([t EXCEPT !.divider = (@ + 1) % 256, !.div_internal = @ - 256])
    ELSE t

\* while self.timer_internal >= self.clock_freq { .. }, for clock_freq > 0
RECURSIVE counter_loop(_)
counter_loop(t) ==
    IF t.timer_internal >= t.clock_freq
    THEN LET counter == (t.counter + 1) % 256
         IN  counter_loop(
               [t EXCEPT !.counter = IF counter = 0 THEN t.modulo ELSE counter,
                         !.interrupt = IF counter = 0 THEN bitor(@, 4) ELSE @,
                         !.timer_internal = @ - t.clock_freq])
    ELSE t

\* the counting loop never ends when it is entered with clock_freq = 0
counter_loop_hangs(t) == t.timer_enabled /\ t.clock_freq = 0

execute_cycle(t, time) ==
    LET divided == divider_loop([t EXCEPT !.div_internal = @ + time])
    IN  IF ~divided.timer_enabled \/ counter_loop_hangs(divided) THEN divided
        ELSE counter_loop(divided)

\* extract_timer_ctrl_reg whose default arm yields no threshold
extract_timer_ctrl_reg_zero(t) ==
    [t EXCEPT !.timer_enabled = (bitand(t.timer_ctrl, 4) = 0),
              !.clock_freq = CASE bitand(t.timer_ctrl, 3) = 1 -> 16
                               [] bitand(t.timer_ctrl, 3) = 2 -> 64
                               [] bitand(t.timer_ctrl, 3) = 3 -> 256
                               [] OTHER -> 0]

extract_timer_ctrl_reg(t) ==
    [t EXCEPT !.timer_enabled = (bitand(t.timer_ctrl, 4) = 0),
              !.clock_freq = CASE bitand(t.timer_ctrl, 3) = 1 -> 16
                               [] bitand(t.timer_ctrl, 3) = 2 -> 64
                               [] bitand(t.timer_ctrl, 3) = 3 -> 256
                               [] OTHER -> 1024]

\* [out, fault]
Timer_mem_read_u8(t, addr) ==
    CASE addr = 65284 -> [out |-> << t.divider >>, fault |-> FALSE]
      [] addr = 65285 -> [out |-> << t.counter >>, fault |-> FALSE]
      [] addr = 65286 -> [out |-> << t.modulo >>, fault |-> FALSE]
      [] addr = 65287 -> [out |-> << t.timer_ctrl >>, fault |-> FALSE]
      [] OTHER -> [out |-> << >>, fault |-> TRUE]

\* [timer, fault]
Timer_mem_write_u8(t, addr, data) ==
    CASE addr = 65284 -> [timer |-> [t EXCEPT !.divider = data], fault |-> FALSE]
      [] addr = 65285 -> [timer |-> [t EXCEPT !.counter = data], fault |-> FALSE]
      [] addr = 65286 -> [timer |-> [t EXCEPT !.modulo = data], fault |-> FALSE]
      [] addr = 65287 ->
           [timer |-> extract_timer_ctrl_reg([t EXCEPT !.timer_ctrl = data]),
            fault |-> FALSE]
      [] OTHER -> [timer |-> t, fault |-> TRUE]

(***************************************************************************)
(* src/src/mmu.rs: the bus.  The arrays wram and hram are [len, cells]:    *)
(* len bytes, all 0 but the cells holding another byte.                    *)
(***************************************************************************)
WramSize == 32768

HramSize == 127

MMU_new(mbc) ==
    [mbc |-> mbc, enable_data |-> -1, ram_stores |-> 0,
     wram |-> [len |-> WramSize, cells |-> [i \in {} |-> 0]],
     wram_bank_idx |-> 1,
     timer |-> Timer_new,
     hram |-> [len |-> HramSize, cells |-> [i \in {} |-> 0]],
     interrupt_enable |-> 0,
     writes |-> 0, elapsed |-> 0]

\* the result of a bus call: the MMU after it, the byte read, and whether
\* the call panicked
BusDone(m, out) == [mmu |-> m, out |-> out, fault |-> FALSE]

BusFault(m) == [mmu |-> m, out |-> << >>, fault |-> TRUE]

\* array[index], which panics past the end of the array
array_read(m, array, index) ==
    IF index >= array.len THEN BusFault(m)
    ELSE BusDone(m, << IF index \in DOMAIN array.cells THEN array.cells[index] ELSE 0 >>)

\* the array after array[index] = data, for index < array.len
array_store(array, index, data) ==
    [array EXCEPT !.cells =
        IF data = 0 THEN [i \in DOMAIN @ \ {index} |-> @[i]]
        ELSE (index :> data) @@ @]

\* addresses whose arm is todo!() or unimplemented!()
unimplemented_io(addr) ==
    \/ 32768 <= addr /\ addr <= 40959
    \/ 65024 <= addr /\ addr <= 65183
    \/ 65280 <= addr /\ addr <= 65282
    \/ 65296 <= addr /\ addr <= 65318
    \/ 65328 <= addr /\ addr <= 65343
    \/ 65344 <= addr /\ addr <= 65355
    \/ addr \in {65359, 65360}
    \/ 65361 <= addr /\ addr <= 65365
    \/ addr \in {65384, 65385}

\* 0xE000..=0xFDFF | 0xFEA0..=0xFEFF
prohibited(addr) ==
    \/ 57344 <= addr /\ addr <= 65023
    \/ 65184 <= addr /\ addr <= 65279

MMU_mem_read_u8_echo(m, addr) ==
    IF 57344 <= addr /\ addr <= 65023 THEN array_read(m, m.wram, addr - 57344)
    ELSE BusFault(m)

MMU_mem_read_u8(m, addr) ==
    IF addr <= 32767
    THEN LET r == read_rom(m.mbc, addr)
         IN  [mmu |-> [m EXCEPT !.mbc = r.mbc], out |-> r.out, fault |-> r.fault]
    ELSE IF unimplemented_io(addr) THEN BusFault(m)
    ELSE IF addr <= 49151
    THEN LET r == read_ram(m.mbc, addr)
         IN  [mmu |-> [m EXCEPT !.mbc = r.mbc], out |-> r.out, fault |-> r.fault]
    ELSE IF addr <= 53247 THEN array_read(m, m.wram, addr - 49152)
    ELSE IF addr <= 57343
    THEN array_read(m, m.wram, m.wram_bank_idx * 4096 + (addr - 49152))
    ELSE IF 65284 <= addr /\ addr <= 65287
    THEN LET r == Timer_mem_read_u8(m.timer, addr)
         IN  [mmu |-> m, out |-> r.out, fault |-> r.fault]
    ELSE IF addr = 65392 THEN BusDone(m, << m.wram_bank_idx % 256 >>)
    ELSE IF 65408 <= addr /\ addr <= 65534 THEN array_read(m, m.hram, addr - 65408)
    ELSE IF addr = 65535 THEN BusDone(m, << m.interrupt_enable >>)
    ELSE BusFault(m)

MMU_mem_write_u8(m, addr, data) ==
    IF addr <= 32767
    THEN LET r == write_rom(m.mbc, addr, data)
         IN  [mmu |-> [m EXCEPT !.mbc = r.mbc], out |-> << >>, fault |-> r.fault]
    ELSE IF unimplemented_io(addr) THEN BusFault(m)
    ELSE IF addr <= 49151
    THEN LET r == write_ram(m.mbc, addr, data)
         IN  [mmu |-> [m EXCEPT !.mbc = r.mbc], out |-> << >>, fault |-> r.fault]
    ELSE IF addr <= 53247
    THEN BusDone([m EXCEPT !.wram = array_store(@, addr - 49152, data)], << >>)
    ELSE IF addr <= 57343
    THEN LET index == m.wram_bank_idx * 4096 + (addr - 49152)
         IN  IF index >= m.wram.len THEN BusFault(m)
             ELSE BusDone([m EXCEPT !.wram = array_store(@, index, data)], << >>)
    ELSE IF 65284 <= addr /\ addr <= 65287
    THEN LET r == Timer_mem_write_u8(m.timer, addr, data)
         IN  [mmu |-> [m EXCEPT !.timer = r.timer], out |-> << >>, fault |-> r.fault]
    ELSE IF addr = 65392
    THEN BusDone([m EXCEPT !.wram_bank_idx = IF data < 1 THEN 1 ELSE data], << >>)
    ELSE IF 65408 <= addr /\ addr <= 65534
    THEN BusDone([m EXCEPT !.hram = array_store(@, addr - 65408, data)], << >>)
    ELSE IF addr = 65535 THEN BusDone([m EXCEPT !.interrupt_enable = data], << >>)
    ELSE BusFault(m)

(***************************************************************************)
(* SpecBus: an MMU over an MBC0 cartridge receives any sequence of         *)
(* mem_read_u8 and mem_write_u8 calls, up to a call that panics.           *)
(* mmu.writes counts the mem_write_u8 calls that returned.                 *)
(***************************************************************************)
\* mem_write_u8 calls that return in one behaviour
MaxBusWrites == 2

\* one address or more of every arm of the two matches
BusAddrs ==
    {0, 16384, 32768, 40960, 49152, 53247, 53248, 57343, 57344, 65023,
     65024, 65184, 65279, 65280, 65283, 65284, 65285, 65286, 65287, 65296,
     65392, 65408, 65534, 65535}

BusData == {0, 2, 7}

InitBus ==
    /\ mmu = MMU_new(MBC0_new([len |-> 2 * RomBankSize, type |-> 0, ram_code |-> 0]))
    /\ call = CallIdle
    /\ alu = AluIdle
    /\ cpu = CpuIdle
    /\ memory = << >>
    /\ last = LastIdle
    /\ run = "idle"
    /\ program = << >>

call_mem_read_u8 ==
    /\ ~call.fault
    /\ \E addr \in BusAddrs :
          LET r == MMU_mem_read_u8(mmu, addr)
          IN  /\ mmu' = r.mmu
              /\ call' = Called("mem_read_u8", << addr >>, r)
    /\ UNCHANGED << alu, cpu, memory, last, run, program >>

call_mem_write_u8 ==
    /\ ~call.fault
    /\ \E addr \in BusAddrs, data \in BusData :
          LET r == MMU_mem_write_u8(mmu, addr, data)
          IN  /\ ~r.fault => mmu.writes < MaxBusWrites
              /\ mmu' = [r.mmu EXCEPT !.writes = IF r.fault THEN @ ELSE @ + 1]
              /\ call' = Called("mem_write_u8", << addr, data >>, r)
    /\ UNCHANGED << alu, cpu, memory, last, run, program >>

NextBus == call_mem_read_u8 \/ call_mem_write_u8

SpecBus == InitBus /\ [][NextBus]_vars

(***************************************************************************)
(* SpecTimer: the timer of a fresh MMU is ticked with any sequence of      *)
(* cycle counts and its registers are read; no register is written.        *)
(* mmu.elapsed is the sum of the cycle counts modulo 65536, which fixes    *)
(* floor(sum / 256) mod 256.                                               *)
(***************************************************************************)
TickTimes == {100, 256, 1000}

\* 0xFF04 .. 0xFF07
TimerAddrs == {65284, 65285, 65286, 65287}

InitTimer ==
    /\ mmu = MMU_new(MBC0_new([len |-> 2 * RomBankSize, type |-> 0, ram_code |-> 0]))
    /\ call = CallIdle
    /\ alu = AluIdle
    /\ cpu = CpuIdle
    /\ memory = << >>
    /\ last = LastIdle
    /\ run = "idle"
    /\ program = << >>

Returned(out) == [out |-> out, fault |-> FALSE]

tick(time) ==
    /\ mmu' = [mmu EXCEPT !.timer = execute_cycle(@, time),
                          !.elapsed = (@ + time) % 65536]
    /\ call' = Called("execute_cycle", << time >>, Returned(<< >>))
    /\ UNCHANGED << alu, cpu, memory, last, run, program >>

call_execute_cycle == \E time \in TickTimes : tick(time)

call_timer_read ==
    /\ \E addr \in TimerAddrs :
          call' = Called("timer_read", << addr >>, Timer_mem_read_u8(mmu.timer, addr))
    /\ UNCHANGED << alu, cpu, memory, last, run, program, mmu >>

NextTimer == call_execute_cycle \/ call_timer_read

SpecTimer == InitTimer /\ [][NextTimer]_vars

(***************************************************************************)
(* SpecTimerRun: the timer registers are written, then the timer is        *)
(* ticked for ever.                                                        *)
(***************************************************************************)
\* control bytes: stopped at 1024 and 16 cycles; counting at 16, 64, 256
\* and 1024 cycles (0xFC); a counter byte and a modulo byte
TimerWrites ==
    {<< 65287, d >> : d \in {0, 1, 5, 6, 7, 252}} \cup {<< 65285, 252 >>, << 65286, 5 >>}

RunTimes == {64, 1024}

call_timer_write ==
    /\ call.fn # "execute_cycle"
    /\ \E w \in TimerWrites :
          LET r == Timer_mem_write_u8(mmu.timer, w[1], w[2])
          IN  /\ mmu' = [mmu EXCEPT !.timer = r.timer]
              /\ call' = Called("timer_write", w, [out |-> << >>, fault |-> r.fault])
    /\ UNCHANGED << alu, cpu, memory, last, run, program >>

call_tick == \E time \in RunTimes : tick(time)

NextTimerRun == call_timer_write \/ call_tick

SpecTimerRun == InitTimer /\ [][NextTimerRun]_vars /\ WF_vars(call_tick)

(***************************************************************************)
(* Loading: src/src/cartridge/mod.rs (Cartridge::new), get_mbc of          *)
(* src/src/cartridge/mbc/mod.rs and MBC1::load_save_file.  A loaded file   *)
(* is [len, type, ram_code, logo]: logo is its bytes 0x0104..0x0133.       *)
(***************************************************************************)
NINTENDO_LOGO ==
    << 206, 237, 102, 102, 204, 13, 0, 11, 3, 115, 0, 131, 0, 12, 0, 13,
       0, 8, 17, 31, 136, 137, 0, 14, 220, 204, 110, 230, 221, 221, 217, 153,
       187, 187, 103, 99, 110, 14, 236, 204, 221, 220, 153, 159, 187, 185, 51, 62 >>

file_byte(raw, i) ==
    IF 260 <= i /\ i <= 307 THEN raw.logo[i - 259] ELSE raw_byte(raw, i)

\* &raw[start..=end]: the bytes start .. end, an empty slice for
\* start = end + 1, and a panic for a longer start or an end past the file
slice_panics(raw, start, end) == end + 1 > raw.len \/ start > end + 1

slice(raw, start, end) == [k \in 1 .. (end + 1 - start) |-> file_byte(raw, start + k - 1)]

\* the result of a constructor: Ok, Err(message) or a panic
Ok == [out |-> << "Ok" >>, fault |-> FALSE]

Err(message) == [out |-> << "Err", message >>, fault |-> FALSE]

Crash == [out |-> << >>, fault |-> TRUE]

Cartridge_new(raw) ==
    IF \/ slice_panics(raw, 260, 259)
       \/ slice_panics(raw, 256, 259)
       \/ slice_panics(raw, 308, 322)
    THEN Crash
    ELSE IF slice(raw, 260, 259) # NINTENDO_LOGO
    THEN Err("Does not have Nintendo logo at boot")
    ELSE IF raw.len < 336 THEN Crash
    ELSE Ok

\* todo!() panics
get_mbc(raw) ==
    IF raw.len < 328 THEN Err("ROM too small")
    ELSE IF raw.type = 0 THEN Ok
    ELSE Crash

\* File::open succeeds on an existing save file, which is then open for
\* reading only: write_all fails on it unless the buffer is empty
load_save_file(mbc, save_exists) ==
    IF mbc.rom.type = 3 /\ save_exists /\ mbc.ram.len > 0 THEN Crash ELSE Ok

(***************************************************************************)
(* SpecLoad: one constructor is called on a sampled file.                  *)
(***************************************************************************)
\* 0x100, 0x104, 0x143, 0x147, 0x148, 0x14F, 0x150, 0x8000
FileLens == {256, 260, 323, 327, 328, 335, 336, 32768}

FileTypes == {0, 1, 2, 3, 4, 5, 6, 255}

FileLogos ==
    {NINTENDO_LOGO, [NINTENDO_LOGO EXCEPT ![1] = 0], [NINTENDO_LOGO EXCEPT ![48] = 0]}

Files ==
    [len : FileLens, type : FileTypes, ram_code : {0, 3}, logo : FileLogos]

InitLoad ==
    /\ mmu = MmuIdle
    /\ call = CallIdle
    /\ alu = AluIdle
    /\ cpu = CpuIdle
    /\ memory = << >>
    /\ last = LastIdle
    /\ run = "idle"
    /\ program = << >>

call_Cartridge_new ==
    /\ call.fn = "none"
    /\ \E raw \in Files :
          call' = Called("Cartridge_new", << raw >>, Cartridge_new(raw))
    /\ UNCHANGED << alu, cpu, memory, last, run, program, mmu >>

call_get_mbc ==
    /\ call.fn = "none"
    /\ \E raw \in Files :
          LET r == get_mbc(raw)
          IN  /\ call' = Called("get_mbc", << raw >>, r)
              /\ mmu' = IF r = Ok THEN [MmuIdle EXCEPT !.mbc = MBC0_new(raw)] ELSE MmuIdle
    /\ UNCHANGED << alu, cpu, memory, last, run, program >>

call_MBC1_new ==
    /\ call.fn = "none"
    /\ \E raw \in Files, save_exists \in BOOLEAN :
          /\ raw.len >= 328 /\ raw.type \in {1, 2, 3}
          /\ LET mbc == MBC1_new(raw, "cartridge/mbc1.rs")
                 r == load_save_file(mbc, save_exists)
             IN  /\ call' = Called("MBC1_new", << raw, save_exists >>, r)
                 /\ mmu' = IF r = Ok THEN [MmuIdle EXCEPT !.mbc = mbc] ELSE MmuIdle
    /\ UNCHANGED << alu, cpu, memory, last, run, program >>

NextLoad == call_Cartridge_new \/ call_get_mbc \/ call_MBC1_new

SpecLoad == InitLoad /\ [][NextLoad]_vars

(***************************************************************************)
(* Claims about the ALU (checked under SpecAlu).                           *)
(***************************************************************************)
AluSum == alu.x + alu.y + bool2int(alu.carry)

\* C1: add_u8(x, y, c) returns (result, half-carry, carry, zero) with
\* result = (x + y + c) mod 256, half-carry iff (x mod 16) + (y mod 16) + c > 15,
\* carry iff x + y + c > 255 and zero iff result = 0; add_u16 is the same at
\* width 16 with half-carry out of the low 12 bits and carry out of the low 16.
C1_AddContract ==
    /\ alu.fn = "add_u8" =>
          alu.out = << AluSum % 256,
                       (alu.x % 16) + (alu.y % 16) + bool2int(alu.carry) > 15,
                       AluSum > 255,
                       AluSum % 256 = 0 >>
    /\ alu.fn = "add_u16" =>
          alu.out = << AluSum % 65536,
                       (alu.x % 4096) + (alu.y % 4096) + bool2int(alu.carry) > 4095,
                       AluSum > 65535,
                       AluSum % 65536 = 0 >>

\* an 8-bit addition with carry-in that carries out of bit 3 and bit 7 and is 0
C1_Witness ==
    /\ alu.fn = "add_u8"
    /\ alu.carry
    /\ alu.out = << 0, TRUE, TRUE, TRUE >>

\* C2: sub_u8(x, y, c) returns (result, half-borrow, borrow, zero) with
\* result = (x - y - c) mod 256, half-borrow iff (x mod 16) < (y mod 16) + c,
\* borrow iff x < y + c and zero iff result = 0.
C2_SubContract ==
    alu.fn = "sub_u8" =>
        alu.out = << (alu.x - alu.y - bool2int(alu.carry)) % 256,
                     (alu.x % 16) < (alu.y % 16) + bool2int(alu.carry),
                     alu.x < alu.y + bool2int(alu.carry),
                     (alu.x - alu.y - bool2int(alu.carry)) % 256 = 0 >>

\* a subtraction that borrows only because of the borrow-in
C2_Witness ==
    /\ alu.fn = "sub_u8"
    /\ alu.carry
    /\ alu.x = alu.y
    /\ alu.out = << 255, TRUE, TRUE, FALSE >>

(***************************************************************************)
(* Claims about the opcode routines (checked under SpecOps).               *)
(***************************************************************************)
Executed(codes) == run = "executed" /\ last.code \in codes

\* a flag of a CPU state
Flag(s, flag) == (s.status \div flag) % 2 = 1

\* the operand the mnemonic of an 8-bit opcode names, in CPU state s
named8(code, s, m) ==
    CASE slot(code) = 0 -> s.b
      [] slot(code) = 1 -> s.c
      [] slot(code) = 2 -> s.d
      [] slot(code) = 3 -> s.e
      [] slot(code) = 4 -> s.h
      [] slot(code) = 5 -> s.l
      [] slot(code) = 6 -> IF (s.h * 256 + s.l) \in DOMAIN m THEN m[s.h * 256 + s.l] ELSE 0
      [] slot(code) = 7 -> s.a
      [] slot(code) = 8 -> IF s.program_counter \in DOMAIN m THEN m[s.program_counter] ELSE 0

\* the register pair a 16-bit INC/DEC names, in CPU state s
named16(code, s) ==
    CASE code \in {3, 11}  -> s.b * 256 + s.c
      [] code \in {19, 27} -> s.d * 256 + s.e
      [] code \in {35, 43} -> s.h * 256 + s.l
      [] code \in {51, 59} -> s.stack_pointer

\* C3: after ADD/ADC/SUB/SBC A,x Zero is set iff the new A is 0, Half-Carry
\* iff the ALU reported a carry/borrow out of bit 3, Carry iff it reported one
\* out of bit 7; Subtract is cleared by ADD/ADC and set by SUB/SBC; ADC/SBC
\* use the pre-step Carry as carry-in.
C3_AluFlags ==
    Executed(AddCodes \cup AdcCodes \cup SubCodes \cup SbcCodes) =>
        LET p   == last.pre
            cin == last.code \in AdcCodes \cup SbcCodes /\ Flag(p, FlagC)
            y   == operand8(last.code, p, last.premem)
            t   == IF last.code \in AddCodes \cup AdcCodes
                   THEN add_u8(p.a, y, cin) ELSE sub_u8(p.a, y, cin)
        IN  /\ cpu.a = t[1]
            /\ Flag(cpu, FlagZ) = (cpu.a = 0)
            /\ Flag(cpu, FlagH) = t[2]
            /\ Flag(cpu, FlagC) = t[3]
            /\ Flag(cpu, FlagN) = (last.code \in SubCodes \cup SbcCodes)

\* C6: INC r sets Zero iff the incremented value is 0 and Half-Carry iff the
\* old low nibble was 0xF, clears Subtract and leaves Carry unchanged; DEC r
\* sets Zero iff the decremented value is 0 and Half-Carry iff the old low
\* nibble was 0, sets Subtract and leaves Carry unchanged.
C6_IncDecFlags ==
    Executed(Inc8Codes \cup Dec8Codes) =>
        LET p   == last.pre
            old == named8(last.code, p, last.premem)
            new == named8(last.code, cpu, memory)
            inc == last.code \in Inc8Codes
        IN  /\ Flag(cpu, FlagZ) = (new = 0)
            /\ Flag(cpu, FlagH) = (IF inc THEN old % 16 = 15 ELSE old % 16 = 0)
            /\ Flag(cpu, FlagN) = ~inc
            /\ Flag(cpu, FlagC) = Flag(p, FlagC)

\* C7: INC rr and DEC rr change the pair to (rr + 1) mod 65536 resp.
\* (rr - 1) mod 65536 and leave all four flags as they were, wraparound
\* included.
C7_IncDec16 ==
    Executed(Inc16Codes \cup Dec16Codes) =>
        LET old == named16(last.code, last.pre)
            new == named16(last.code, cpu)
        IN  /\ new = (IF last.code \in Inc16Codes THEN old + 1 ELSE old + 65535) % 65536
            /\ cpu.status = last.pre.status

\* an INC rr that wrapped 0xFFFF to 0x0000 with all four flags set before it
C7_Witness ==
    /\ Executed(Inc16Codes)
    /\ named16(last.code, last.pre) = 65535
    /\ named16(last.code, cpu) = 0
    /\ last.pre.status = 240

\* C8: AND/OR/XOR A,x set A to the bitwise result, set Zero iff A becomes 0
\* and clear Subtract and Carry; AND sets Half-Carry, OR and XOR clear it.
C8_Logic ==
    Executed(AndCodes \cup XorCodes \cup OrCodes) =>
        LET p == last.pre
            x == named8(last.code, p, last.premem)
        IN  /\ cpu.a = (CASE last.code \in AndCodes -> bitand(p.a, x)
                          [] last.code \in XorCodes -> bitxor(p.a, x)
                          [] last.code \in OrCodes  -> bitor(p.a, x))
            /\ Flag(cpu, FlagZ) = (cpu.a = 0)
            /\ ~Flag(cpu, FlagN)
            /\ ~Flag(cpu, FlagC)
            /\ Flag(cpu, FlagH) = (last.code \in AndCodes)

\* C9: CP A,x leaves A and every other register unchanged and sets the flags
\* of A - x: Zero iff A = x, Subtract set, Half-Carry iff (A mod 16) < (x mod 16),
\* Carry iff A < x.
C9_Compare ==
    Executed(CpCodes) =>
        LET p == last.pre
            x == named8(last.code, p, last.premem)
        IN  /\ [cpu EXCEPT !.status = 0] = [p EXCEPT !.status = 0]
            /\ Flag(cpu, FlagZ) = (p.a = x)
            /\ Flag(cpu, FlagN)
            /\ Flag(cpu, FlagH) = ((p.a % 16) < (x % 16))
            /\ Flag(cpu, FlagC) = (p.a < x)

\* C10: after ADD SP,i8 and LD HL,SP+i8 Zero and Subtract are clear,
\* Half-Carry is the carry out of bit 3 and Carry the carry out of bit 7 of
\* (low byte of SP + displacement byte).
C10_SpRelFlags ==
    Executed({AddSpCode, LdHlSpCode}) =>
        LET p  == last.pre
            lo == p.stack_pointer % 256
            d  == named8(last.code, p, last.premem)
        IN  /\ ~Flag(cpu, FlagZ)
            /\ ~Flag(cpu, FlagN)
            /\ Flag(cpu, FlagH) = ((lo % 16) + (d % 16) > 15)
            /\ Flag(cpu, FlagC) = (lo + d > 255)

(***************************************************************************)
(* Claims about the run loop (checked under SpecRun).                      *)
(***************************************************************************)
\* JR, JP, CALL, RET, RETI, RST, STOP and HALT
ControlCodes ==
    {16, 24, 32, 40, 48, 56, 118, 192, 194, 195, 196, 199, 200, 201, 202, 204,
     205, 207, 208, 210, 212, 215, 216, 217, 218, 220, 223, 231, 233, 239, 247, 255}

PrefixCode == 203   \* 0xCB

\* byte length N of the instruction that starts with the byte code: every
\* extended-page descriptor (0xCB00-0xCBFF) has length 2
instruction_length(code) == IF code = PrefixCode THEN 2 ELSE opcode_bytes(code)

\* C4: for every opcode that is not a jump, call, return, reset, STOP or HALT,
\* extended-page opcodes included, one step leaves the program counter equal
\* to its pre-step value plus the byte length of the opcode's descriptor.
C4_PcAdvance ==
    (run # "idle" /\ last.code \in (0 .. 255) \ (ControlCodes \cup Unassigned)) =>
        /\ run # "panicked"
        /\ cpu.program_counter =
              last.pre.program_counter + instruction_length(last.code)

\* C5: load_and_run of LD A,a; LD B,b; ADD A,B; STOP terminates at the STOP
\* without a fault, with A = (a + b) mod 256 and B = b; for a = 5, b = 3 it
\* ends with A = 8 and Zero, Half-Carry and Carry clear.
C5_AddProgram ==
    (Len(program) = 6 /\ program[5] = 128) =>
        /\ run # "panicked"
        /\ run = "stopped" =>
              /\ cpu.a = (program[2] + program[4]) % 256
              /\ cpu.b = program[4]
              /\ (program[2] = 5 /\ program[4] = 3) =>
                    (cpu.a = 8 /\ ~Flag(cpu, FlagZ) /\ ~Flag(cpu, FlagH)
                               /\ ~Flag(cpu, FlagC))

(***************************************************************************)
(* Claims about the signed displacement (checked under SpecOps).           *)
(***************************************************************************)
\* C11: ADD SP,i8 sets SP, and LD HL,SP+i8 sets HL, to (SP + d) mod 65536
\* where d is the operand byte read as a two's-complement value in -128..127;
\* LD HL,SP+i8 leaves SP unchanged.
C11_SpRelValue ==
    Executed({AddSpCode, LdHlSpCode}) =>
        LET p    == last.pre
            byte == named8(last.code, p, last.premem)
            d    == IF byte < 128 THEN byte ELSE byte - 256
            want == (p.stack_pointer + d) % 65536
        IN  /\ last.code = AddSpCode => cpu.stack_pointer = want
            /\ last.code = LdHlSpCode =>
                  /\ cpu.h * 256 + cpu.l = want
                  /\ cpu.stack_pointer = p.stack_pointer

(***************************************************************************)
(* Claims about control flow and the stack (checked under SpecStack).      *)
(***************************************************************************)
\* the CPU state s with the flag a conditional opcode tests inverted
other_branch(code, s) ==
    [s EXCEPT !.status = bitxor(@, IF (code \div 8) % 4 < 2 THEN FlagZ ELSE FlagC)]

\* the condition the mnemonic of a conditional opcode names: NZ, Z, NC, C
named_condition(code, s) ==
    CASE code \in {32, 192, 194, 196} -> ~Flag(s, FlagZ)
      [] code \in {40, 200, 202, 204} -> Flag(s, FlagZ)
      [] code \in {48, 208, 210, 212} -> ~Flag(s, FlagC)
      [] code \in {56, 216, 218, 220} -> Flag(s, FlagC)

\* C12: for every conditional JR, JP, CALL and RET the cycle count returned
\* when the condition holds is strictly greater than the count returned when
\* it does not hold, and the program counter is redirected only when it holds.
C12_CondCycles ==
    Executed(CondCodes) =>
        LET p     == last.pre
            taken == named_condition(last.code, p)
        IN  /\ taken =>
                  last.cycles > decode(last.code, other_branch(last.code, p),
                                       last.premem).cycles
            /\ ~taken => cpu.program_counter = p.program_counter

\* the register pair a PUSH or POP names, in CPU state s
stack_pair(code, s) ==
    CASE code \in {197, 193} -> s.b * 256 + s.c
      [] code \in {213, 209} -> s.d * 256 + s.e
      [] code \in {229, 225} -> s.h * 256 + s.l
      [] code \in {245, 241} -> s.a * 256 + s.status

\* the 16-bit word stored at addr, low byte first
word_at(m, addr) ==
    LET cell(x) == IF x \in DOMAIN m THEN m[x] ELSE 0
    IN  cell((addr + 1) % 65536) * 256 + cell(addr)

\* the value a pair holds after the word v is loaded into it: the low nibble
\* of the flag register, the low byte of AF, is always zero
held(code, v) == IF code = 241 THEN v - (v % 16) ELSE v

C13_UnassignedFault ==
    last.code \in {211, 219, 221, 227, 228, 235, 236, 237, 244, 252, 253} =>
        /\ run = "panicked"
        /\ [cpu EXCEPT !.program_counter = 0] = [last.pre EXCEPT !.program_counter = 0]
        /\ memory = last.premem
        /\ cpu.program_counter = last.pre.program_counter + 1

\* the program LD A,a; LD B,b; 0xD3 has panicked at the 0xD3, fetched at address 4
C13_Witness ==
    /\ run = "panicked"
    /\ last.code = 211
    /\ last.pre.program_counter = 4
    /\ cpu.a = program[2]
    /\ cpu.b = program[4]

(***************************************************************************)
(* Claims about the register accessors (checked under SpecRegs).           *)
(***************************************************************************)
\* the 8-bit register named r, in CPU state s
named_reg(r, s) ==
    CASE r = "a" -> s.a
      [] r = "b" -> s.b
      [] r = "c" -> s.c
      [] r = "d" -> s.d
      [] r = "e" -> s.e
      [] r = "h" -> s.h
      [] r = "l" -> s.l

\* C15: each 8-bit getter returns its own register (get_b returns B, ...,
\* independently of A); set_XY(v) followed by get_XY() returns v, with X
\* holding the high byte and Y the low byte, and setting a pair changes no
\* register outside that pair.
C15_Accessors ==
    /\ call.fn = "get8" => call.out[1] = named_reg(call.args[1], cpu)
    /\ call.fn = "set16" =>
          LET pair == call.args[1]
              v    == call.args[2]
              hi   == IF pair = "bc" THEN "b" ELSE IF pair = "de" THEN "d" ELSE "h"
              lo   == IF pair = "bc" THEN "c" ELSE IF pair = "de" THEN "e" ELSE "l"
          IN  /\ named_reg(hi, cpu) = v \div 256
              /\ named_reg(lo, cpu) = v % 256
              /\ \A r \in Regs8 \ {hi, lo} : named_reg(r, cpu) = named_reg(r, last.pre)
              /\ cpu.status = last.pre.status
              /\ cpu.stack_pointer = last.pre.stack_pointer
              /\ cpu.program_counter = last.pre.program_counter
    /\ (call.fn = "get16" /\ call.prev.fn = "set16"
            /\ call.prev.args[1] = call.args[1]) =>
          call.out[1] = call.prev.args[2]

(***************************************************************************)
(* Bank controllers (SpecMbc)                                              *)
(***************************************************************************)
is_mbc1 == mmu.mbc.kind = "mbc1"

in_range(addr, lo, hi) == lo <= addr /\ addr <= hi

\* C17: MBC1: after a write of d to an address in 0x2000-0x3FFF the low 5
\* bits of the ROM bank index are d & 0x1F, or 1 when d & 0x1F = 0; a
\* read_rom(a) with a in 0x4000-0x7FFF returns the image byte at offset
\* bank * 0x4000 + (a - 0x4000) when the image holds that offset.
C17_RomBankSelect ==
    is_mbc1 =>
      /\ (call.fn = "write_rom" /\ in_range(call.args[1], 8192, 16383)) =>
            mmu.mbc.rom_bank_idx % 32 =
                (IF call.args[2] % 32 = 0 THEN 1 ELSE call.args[2] % 32)
      /\ (call.fn = "read_rom" /\ in_range(call.args[1], 16384, 32767)) =>
            LET offset == mmu.mbc.rom_bank_idx * 16384 + (call.args[1] - 16384)
            IN  /\ ~call.fault
                /\ offset < mmu.mbc.rom.len =>
                      call.out = << raw_byte(mmu.mbc.rom, offset) >>

\* read_rom(0x4000) with bank 5 selected returned the byte at 5 * 0x4000
C17_Witness ==
    /\ is_mbc1
    /\ call.fn = "read_rom" /\ call.args = << 16384 >>
    /\ mmu.mbc.rom_bank_idx = 5
    /\ 5 * 16384 < mmu.mbc.rom.len
    /\ call.out = << raw_byte(mmu.mbc.rom, 5 * 16384) >>

\* C18: MBC1: from the fresh controller and under every sequence of control
\* writes, the ROM bank index used for reads of 0x4000-0x7FFF is never 0.
C18_BankNeverZero == is_mbc1 => mmu.mbc.rom_bank_idx # 0

\* a bank-select write whose low 5 bits are 0 (0x00 or 0xE0) has been made
\* after the upper bits or the mode were written
C18_Witness ==
    /\ is_mbc1
    /\ call.fn = "write_rom" /\ in_range(call.args[1], 8192, 16383)
    /\ call.args[2] % 32 = 0
    /\ mmu.mbc.ram_mode
    /\ mmu.mbc.rom_bank_idx # 0

C20_OutOfRange ==
    /\ call.fault => call.fn = "write_rom"
    /\ (call.fn = "read_rom" /\ call.args[1] <= 32767 /\ ~call.fault) =>
          LET bank == IF is_mbc1 /\ call.args[1] >= 16384
                      THEN mmu.mbc.rom_bank_idx - 1 ELSE 0
              offset == bank * 16384 + call.args[1]
          IN  offset >= mmu.mbc.rom.len => call.out = << 0 >>

(***************************************************************************)
(* Bus (SpecBus)                                                           *)
(***************************************************************************)
is_bus_call(c) == c.fn \in {"mem_read_u8", "mem_write_u8"}

in_prohibited(addr) == in_range(addr, 57344, 65023) \/ in_range(addr, 65184, 65279)

\* C21: every bus read and every bus write at an address in 0xE000-0xFDFF
\* or 0xFEA0-0xFEFF is a fatal fault and leaves the whole MMU as it was: it
\* is no silent no-op and no access to work RAM.
C21_Prohibited ==
    /\ [](is_bus_call(call) /\ in_prohibited(call.args[1]) => call.fault)
    /\ [][(is_bus_call(call') /\ in_prohibited(call'.args[1])) => mmu' = mmu]_vars

\* a read of 0xE000 faulted while the work RAM cell it would mirror held a byte
C21_Witness ==
    /\ call.fn = "mem_read_u8" /\ call.args = << 57344 >>
    /\ call.fault
    /\ 0 \in DOMAIN mmu.wram.cells

(***************************************************************************)
(* Timer (SpecTimer, SpecTimerRun)                                         *)
(***************************************************************************)
\* C22: from a fresh timer with no register write, after any sequence of
\* ticks the divider register is floor(sum of the cycles / 256) mod 256,
\* the divider accumulator is below 256 and the interrupt-request bit is
\* clear.
C22_Divider ==
    /\ mmu.timer.divider = (mmu.elapsed \div 256) % 256
    /\ mmu.timer.div_internal < 256
    /\ bitand(mmu.timer.interrupt, 4) = 0

\* 100 + 256 + 1000 cycles in some order: five full units
C22_Witness ==
    /\ call.fn = "execute_cycle"
    /\ mmu.elapsed = 1356
    /\ mmu.timer.divider = 5

\* the step is a tick of the timer
is_tick == call'.fn = "execute_cycle" /\ mmu'.elapsed # mmu.elapsed

\* the threshold the control byte d selects
threshold(d) ==
    CASE d % 4 = 1 -> 16
      [] d % 4 = 2 -> 64
      [] d % 4 = 3 -> 256
      [] OTHER -> 1024

\* the counter after n increments, reloaded from modulo when it passes 0xFF
RECURSIVE counted(_, _, _)
counted(counter, modulo, n) ==
    IF n = 0 THEN counter
    ELSE counted(IF counter = 255 THEN modulo ELSE counter + 1, modulo, n - 1)

\* C23: after a write of d to the control register the timer counts iff
\* bit 2 of d is set: a tick then advances the counter once for every full
\* threshold (1024, 16, 64, 256 cycles for d & 3 = 0, 1, 2, 3) the elapsed
\* cycles complete, and with bit 2 clear no tick changes the counter.
C23_TimerControl ==
    [][is_tick =>
         LET d == mmu.timer.timer_ctrl
             th == threshold(d)
             n == ((mmu.elapsed + call'.args[1]) \div th) - (mmu.elapsed \div th)
         IN  IF (d \div 4) % 2 = 1
             THEN mmu'.timer.counter = counted(mmu.timer.counter, mmu.timer.modulo, n)
             ELSE mmu'.timer.counter = mmu.timer.counter]_vars

\* C24: with the timer enabled (bit 2 of the control byte set) and ticked
\* for ever, the counter eventually wraps and the timer interrupt-request
\* bit (bit 2) is set; the bit is set only by a tick that leaves the counter
\* at the modulo value.
C24_Overflow ==
    /\ []((call.fn = "execute_cycle" /\ (mmu.timer.timer_ctrl \div 4) % 2 = 1) =>
            <>(bitand(mmu.timer.interrupt, 4) = 4))
    /\ [][(bitand(mmu'.timer.interrupt, 4) # bitand(mmu.timer.interrupt, 4)) =>
            (is_tick /\ mmu'.timer.counter = mmu.timer.modulo)]_vars

(***************************************************************************)
(* Loading (SpecLoad)                                                      *)
(***************************************************************************)
\* C25: Cartridge::new on a file long enough for the header (0x150 bytes)
\* returns success when bytes 0x0104-0x0133 are the reference logo and the
\* logo-mismatch error exactly when they are not.
C25_LogoCheck ==
    (call.fn = "Cartridge_new" /\ call.args[1].len >= 336) =>
        /\ ~call.fault
        /\ call.out = << "Ok" >> <=> call.args[1].logo = NINTENDO_LOGO
        /\ call.out # << "Ok" >> =>
              call.out = << "Err", "Does not have Nintendo logo at boot" >>

\* C26: loading never crashes: a file shorter than 0x148 bytes and a file
\* whose type byte is not 0, 1-3 or 5-6 each give an error value; a file
\* of 0x148 bytes or more with a supported type gives a controller.
C26_LoadNeverCrashes ==
    /\ call.fn = "get_mbc" =>
          /\ ~call.fault
          /\ call.out = << "Ok" >> <=>
                (call.args[1].len >= 328 /\ call.args[1].type \in {0, 1, 2, 3, 5, 6})
    /\ call.fn = "MBC1_new" => (~call.fault /\ call.out = << "Ok" >>)

\* the field of the CPU record an operand slot names (slot 6 is the cell at HL)
slot_field(i) == << "b", "c", "d", "e", "h", "l", "hl", "a" >>[i + 1]

\* the register-to-register loads: 0x40-0x7F without HALT and the (HL) forms
RegLoadCodes == {code \in LdRegCodes : code % 8 # 6 /\ (code - 64) \div 8 # 6}

\* C27: after a register-to-register load (0x40-0x7F other than 0x76 and the
\* (HL) forms) the destination register holds the pre-step value of the
\* source register the mnemonic names, and every other register and all
\* flags are unchanged.
C27_RegLoad ==
    Executed(RegLoadCodes) =>
        LET p   == last.pre
            dst == slot_field((last.code - 64) \div 8)
            src == slot_field(last.code % 8)
        IN  cpu = [p EXCEPT ![dst] = p[src]]

\* the loads and moves that involve no arithmetic
MoveOnlyCodes ==
    LdRegCodes \cup LdImmCodes \cup LdMemCodes \cup LdHighCodes \cup LdWideCodes
        \cup {8, 249}

\* the flag-neutral opcodes besides the loads: PUSH, POP BC/DE/HL, RES, SET,
\* NOP, JR, JP, JP HL, CALL, RET, RST and the conditional jumps, calls, returns
NeutralCodes ==
    PushCodes \cup (PopCodes \ {241}) \cup ResCodes \cup SetCodes \cup {NopCode}
        \cup {24, 195, 233, 205, 201} \cup RstCodes \cup CondCodes

\* the flags named by the mask are the same before and after the step
same_flags(mask) == bitand(cpu.status, mask) = bitand(last.pre.status, mask)

\* BIT leaves Carry, CPL leaves Zero and Carry, SCF and CCF leave Zero
partial_frame ==
    /\ Executed(BitCodes) => same_flags(FlagC)
    /\ Executed({CplCode}) => same_flags(FlagZ + FlagC)
    /\ Executed({ScfCode, CcfCode}) => same_flags(FlagZ)

mbc1_write_step(lo, hi) ==
    /\ is_mbc1
    /\ call'.fn = "write_rom"
    /\ in_range(call'.args[1], lo, hi)

\* C29: MBC1: a write to 0x2000-0x3FFF changes only the low 5 bits of the
\* ROM bank index (bits 5-6 keep their value); a write to 0x4000-0x5FFF in
\* ROM mode changes only bits 5-6 of the ROM bank index (low 5 bits and RAM
\* bank index unchanged), and in RAM mode changes only the 2-bit RAM bank
\* index (ROM bank index unchanged).
C29_BankFrame ==
    [][LET old == mmu.mbc
           now == mmu'.mbc
       IN  /\ mbc1_write_step(8192, 16383) =>
                 /\ now.rom_bank_idx \div 32 = old.rom_bank_idx \div 32
                 /\ now = [old EXCEPT !.rom_bank_idx = now.rom_bank_idx]
           /\ (mbc1_write_step(16384, 24575) /\ ~old.ram_mode) =>
                 /\ now.rom_bank_idx % 32 = old.rom_bank_idx % 32
                 /\ now.rom_bank_idx < 128
                 /\ now = [old EXCEPT !.rom_bank_idx = now.rom_bank_idx]
           /\ (mbc1_write_step(16384, 24575) /\ old.ram_mode) =>
                 /\ now.ram_bank_idx \in 0 .. 3
                 /\ now = [old EXCEPT !.ram_bank_idx = now.ram_bank_idx]]_vars

\* C30: MBC1: each write to an address in 0x6000-0x7FFF toggles the mode
\* flag, whatever byte is written (so two consecutive writes restore it).
C30_ModeToggle ==
    [][mbc1_write_step(24576, 32767) => mmu'.mbc.ram_mode = ~mmu.mbc.ram_mode]_vars

\* an MBC1 that has cartridge RAM, with the RAM enabled
mbc1_ram_on == is_mbc1 /\ mmu.mbc.ram.len > 0 /\ mmu.mbc.ram_enabled

\* C31: MBC1 with RAM enabled: write_ram(a, v) returns, and a read_ram(a)
\* that immediately follows it returns v, for a in 0xA000-0xBFFF and every
\* state of the mode flag and the bank registers.
C31_RamRoundTrip ==
    /\ [][(mbc1_ram_on /\ call'.fn = "write_ram") => ~call'.fault]_vars
    /\ [][(mbc1_ram_on /\ call.fn = "write_ram" /\ ~call.fault
              /\ call'.fn = "read_ram" /\ call'.args[1] = call.args[1]) =>
              call'.out = << call.args[2] >>]_vars

is_mbc2 == mmu.mbc.kind = "mbc2"

\* a and b are in 0xA000-0xBFFF and congruent modulo 0x200
same_cell(a, b) ==
    /\ in_range(a, 40960, 49151)
    /\ in_range(b, 40960, 49151)
    /\ a % 512 = b % 512

\* C32: MBC2 with RAM enabled: write_ram(a, v) followed by read_ram(a')
\* returns v & 0x0F when a and a' are congruent modulo 0x200; every value
\* stored and every value returned is in 0..15.
C32_NibbleRam ==
    /\ [](is_mbc2 =>
            /\ \A i \in DOMAIN mmu.mbc.ram.cells : mmu.mbc.ram.cells[i] \in 0 .. 15
            /\ call.fn = "read_ram" => call.out[1] \in 0 .. 15)
    /\ [][(is_mbc2 /\ mmu.mbc.ram_enabled
              /\ call.fn = "write_ram" /\ call'.fn = "read_ram"
              /\ same_cell(call.args[1], call'.args[1])) =>
              call'.out = << call.args[2] % 16 >>]_vars

\* C33: MBC2: while cartridge RAM is disabled (after load, and after an
\* enable-register write that does not enable it) every read of
\* 0xA000-0xBFFF returns 0 and every write there is ignored.
C33_DisabledRam ==
    /\ []((is_mbc2 /\ ~mmu.mbc.ram_enabled /\ call.fn = "read_ram") =>
              call.out = << 0 >>)
    /\ [][(is_mbc2 /\ ~mmu.mbc.ram_enabled /\ call'.fn = "write_ram") =>
              (~call'.fault /\ mmu'.mbc = mmu.mbc)]_vars

\* C34: for every controller variant and after any sequence of control
\* writes, read_rom(a) with a in 0x0000-0x3FFF returns the cartridge byte at
\* offset a, and no call changes the ROM bytes.
C34_FixedBank ==
    /\ []((call.fn = "read_rom" /\ in_range(call.args[1], 0, 16383)) =>
              (~call.fault /\ call.out = << raw_byte(mmu.mbc.rom, call.args[1]) >>))
    /\ [][mmu'.mbc.rom = mmu.mbc.rom]_vars

\* C35: after ADD HL,rr the pair HL holds (HL + rr) mod 65536, Subtract is
\* clear, Half-Carry is set exactly when the sum of the low 12 bits carries
\* out of bit 11, Carry is set exactly when the sum carries out of bit 15,
\* and Zero is what it was before.
wide_operand(code, s) ==
    CASE code = 9  -> s.b * 256 + s.c
      [] code = 25 -> s.d * 256 + s.e
      [] code = 41 -> s.h * 256 + s.l
      [] code = 57 -> s.stack_pointer

C35_AddHl ==
    Executed(AddHlCodes) =>
        LET x == last.pre.h * 256 + last.pre.l
            y == wide_operand(last.code, last.pre)
        IN  /\ cpu.h * 256 + cpu.l = (x + y) % 65536
            /\ ~Flag(cpu, FlagN)
            /\ Flag(cpu, FlagH) <=> ((x % 4096) + (y % 4096) >= 4096)
            /\ Flag(cpu, FlagC) <=> (x + y >= 65536)
            /\ Flag(cpu, FlagZ) <=> Flag(last.pre, FlagZ)

\* C36: after a shift or rotate of the extended page (RLC, RRC, RL, RR, SLA,
\* SRA, SRL) Zero is set exactly when the byte written back is 0, Subtract
\* and Half-Carry are clear, and Carry equals the bit shifted out of the
\* operand: bit 7 for the left forms, bit 0 for the right forms.
LeftCodes == RlcCodes \cup RlCodes \cup SlaCodes

C36_ShiftFlags ==
    Executed(ShiftCodes) =>
        LET v   == named8(last.code, last.pre, last.premem)
            res == named8(last.code, cpu, memory)
        IN  /\ Flag(cpu, FlagZ) <=> (res = 0)
            /\ ~Flag(cpu, FlagN)
            /\ ~Flag(cpu, FlagH)
            /\ Flag(cpu, FlagC) <=>
                  IF last.code \in LeftCodes THEN v >= 128 ELSE v % 2 = 1

\* C37: when the loop has fetched JP u16 or CALL u16, the routine has run and
\* the post-execute adjustment has been applied to what the routine left, the
\* program counter equals the 16-bit target that follows the opcode byte,
\* whatever the target: the adjustment adds nothing to a taken transfer.
TransferCodes == {195, 205}

C37_TakenTransfer ==
    Executed(TransferCodes) =>
        \A o \in post_execute(last.code, last.pre.program_counter, cpu, memory) :
            /\ o.kind = "continue"
            /\ o.cpu.program_counter = word_at(last.premem, last.pre.program_counter)

\* C38: with p the address of the opcode byte, a RET that runs after CALL u16
\* at p, with the stack pointer and the two pushed bytes as the CALL left
\* them, ends with the program counter at p + 3 and the stack pointer at its
\* value before the CALL; a conditional CALL whose condition is false leaves
\* the stack pointer and memory unchanged and, after the post-execute
\* adjustment, continues at p + 3; RST at p pushes p + 1.
opcode_addr(s) == wrapping_sub16(s.program_counter, 1)

WramWindow == 49152 .. 57343

SwitchWindow == 53248 .. 57343

C39_WramBank ==
    /\ [](call.fn \in {"mem_read_u8", "mem_write_u8"} /\ call.args[1] \in WramWindow
            => ~call.fault)
    /\ [][(call'.fn = "mem_write_u8" /\ call'.args[1] \in SwitchWindow /\ ~call'.fault)
            => /\ MMU_mem_read_u8(mmu', call'.args[1]).out = << call'.args[2] >>
               /\ \A a \in {49152, 53247} :
                     MMU_mem_read_u8(mmu', a).out = MMU_mem_read_u8(mmu, a).out]_vars

\* C40: every tick terminates.  In every state reached from a fresh timer by
\* register writes and ticks the timer is not enabled with threshold 0; an
\* iteration of the divider loop, entered with the accumulator at 256 or more,
\* leaves it strictly smaller; and an iteration of the counter loop, entered
\* with the timer enabled, leaves its accumulator strictly smaller.
C40_TickTerminates ==
    LET t == mmu.timer
    IN  /\ ~counter_loop_hangs(t)
        /\ \A time \in RunTimes :
              LET entry == [t EXCEPT !.div_internal = @ + time]
              IN  /\ entry.div_internal >= 256 =>
                        divider_once(entry).div_internal < entry.div_internal
                  /\ execute_cycle(t, time).div_internal < 256
        /\ t.timer_enabled => t.timer_internal - t.clock_freq < t.timer_internal

\* an enabled timer with threshold 16 has been ticked and its divider loop
\* has gone round
C40_Witness ==
    /\ call.fn = "execute_cycle"
    /\ mmu.timer.timer_enabled
    /\ mmu.timer.clock_freq = 16
    /\ mmu.timer.divider > 0

====
